---------------------------- MODULE Uthash_proofs ----------------------------
(***************************************************************************)
(* Proofs about Uthash: whatever is added, deleted, sorted, and doubled,   *)
(* the chains of pointers are whole, bounded, and make up a HashTable.     *)
(***************************************************************************)
EXTENDS Uthash, TLAPS, FiniteSetTheorems, FunctionTheorems, SequenceTheorems, WellFoundedInduction

-----------------------------------------------------------------------------
(* Numbers *)

LEMMA LeastOf ==
    ASSUME NEW S \in SUBSET Nat, S # {}
    PROVE  \E n \in S : \A m \in S : n <= m
<1>1. PICK n \in S : \A m \in S : ~(<<m, n>> \in OpToRel(<, Nat))
    BY NatLessThanWellFounded, WFMin
<1>2. ASSUME NEW m \in S
      PROVE  n <= m
  <2>1. m \in Nat /\ n \in Nat
      OBVIOUS
  <2>2. ~(m < n)
      BY <1>1, <2>1 DEF OpToRel
  <2>3. QED
      BY <2>1, <2>2
<1>3. QED
    BY <1>1, <1>2

LEMMA SetInduction ==
    ASSUME NEW S, 0 \in S, \A n \in Nat : n \in S => n + 1 \in S
    PROVE  \A n \in Nat : n \in S
<1> SUFFICES ASSUME NEW m \in Nat, m \notin S
             PROVE  FALSE
    OBVIOUS
<1>1. PICK k \in Nat \ S : \A c \in Nat \ S : k <= c
  <2>1. Nat \ S # {} /\ Nat \ S \in SUBSET Nat
      OBVIOUS
  <2>2. QED
      BY <2>1, LeastOf
<1>2. k # 0 /\ k - 1 \in Nat /\ ~(k <= k - 1) /\ (k - 1) + 1 = k
    BY <1>1
<1>3. k - 1 \in S
    BY <1>1, <1>2
<1>4. QED
    BY <1>1, <1>2, <1>3

LEMMA IntervalSize ==
    ASSUME NEW n \in Nat
    PROVE  IsFiniteSet(1 .. n) /\ Cardinality(1 .. n) = n
<1>1. 1 \in Int /\ n \in Int
    OBVIOUS
<1>2. IsFiniteSet(1 .. n) /\ Cardinality(1 .. n) = IF 1 > n THEN 0 ELSE n - 1 + 1
    BY <1>1, FS_Interval
<1>3. QED
    BY <1>2

-----------------------------------------------------------------------------
(* Sequences without repetitions *)

Once(s) == \A m, n \in DOMAIN s : s[m] = s[n] => m = n

LEMMA OnceLength ==
    ASSUME NEW S, NEW s \in Seq(S), Once(s)
    PROVE  IsFiniteSet(Members(s)) /\ Cardinality(Members(s)) = Len(s) /\ Members(s) \subseteq S
<1> DEFINE E == Members(s)
           D == 1 .. Len(s)
<1>1. /\ Len(s) \in Nat /\ DOMAIN s = D /\ s \in [D -> E] /\ E \subseteq S
      /\ \A x \in E : \E k \in D : s[k] = x
    BY DEF Members
<1>2. s \in Surjection(D, E) /\ s \in Injection(D, E)
    BY <1>1 DEF Once, Surjection, Injection, IsInjective
<1>3. IsFiniteSet(D) /\ Cardinality(D) = Len(s)
    BY <1>1, IntervalSize
<1>4. QED
    BY <1>1, <1>2, <1>3, FS_Surjection

LEMMA SameMembers ==
    ASSUME NEW S, NEW s \in Seq(S), NEW t \in Seq(S), Once(s), Once(t), Len(s) = Len(t),
           Members(t) \subseteq Members(s)
    PROVE  Members(t) = Members(s)
<1>1. /\ IsFiniteSet(Members(s)) /\ Cardinality(Members(s)) = Len(s)
      /\ Cardinality(Members(t)) = Len(t)
    BY OnceLength
<1>2. Cardinality(Members(s)) = Cardinality(Members(t)) /\ Members(t) \in SUBSET Members(s)
    BY <1>1
<1>3. QED
    BY <1>1, <1>2, FS_Subset

LEMMA OnceFits ==
    ASSUME NEW s \in Seq(Elements), Once(s)
    PROVE  Len(s) <= Cardinality(Elements) /\ Cardinality(Elements) \in Nat
<1>1. Members(s) \in SUBSET Elements /\ Cardinality(Members(s)) = Len(s)
    BY OnceLength
<1>2. Cardinality(Members(s)) <= Cardinality(Elements) /\ Cardinality(Elements) \in Nat
    BY <1>1, FS_Subset, FS_CardinalityType, UthashAssumption
<1>3. QED
    BY <1>1, <1>2

-----------------------------------------------------------------------------
(* Chains of pointers *)

Link(s, n) == IF n = Len(s) THEN NULL ELSE s[n + 1]
BackLink(s, n) == IF n = 1 THEN NULL ELSE s[n - 1]
First(s) == IF s = << >> THEN NULL ELSE s[1]

(* From e, link leads through s, and back. *)
Chained(s, e, link, back) ==
    /\ s \in Seq(Elements) /\ Once(s) /\ e = First(s)
    /\ \A n \in 1 .. Len(s) : link[s[n]] = Link(s, n) /\ back[s[n]] = BackLink(s, n)

LEMMA ChainIs ==
    ASSUME NEW s, NEW e, NEW link, NEW back, link[NULL] = NULL, Chained(s, e, link, back)
    PROVE  Chain(e, link) = s
<1> DEFINE M == Cardinality(Elements) + 1
           L == Len(s)
           g == [n \in 1 .. M |-> IF n <= L THEN s[n] ELSE NULL]
           h == CHOOSE at : at = [n \in 1 .. M |-> IF n = 1 THEN e ELSE link[at[n-1]]]
<1>1. /\ s \in Seq(Elements) /\ L \in Nat /\ M \in Nat /\ L + 1 <= M
      /\ \A n \in 1 .. L : s[n] \in Elements /\ s[n] # NULL
    BY OnceFits, UthashAssumption DEF Chained
<1>2. Chain(e, link) = SubSeq(h, 1, Cardinality({n \in DOMAIN h : h[n] # NULL}))
    BY DEF Chain
<1>a. s = << >> <=> L = 0
    BY <1>1
<1> HIDE DEF L, M
<1>3. e = g[1] /\ \A n \in 1 .. M : n # 1 => g[n] = link[g[n-1]]
  <2>1. e = g[1]
      BY <1>1, <1>a DEF Chained, First
  <2>2. ASSUME NEW n \in 1 .. M, n # 1, n - 1 <= L
        PROVE  g[n] = link[g[n-1]]
    <3>1. n - 1 \in 1 .. L /\ n - 1 \in 1 .. M /\ (n - 1) + 1 = n /\ (n - 1 = L <=> ~(n <= L))
        BY <1>1, <2>2
    <3>2. link[s[n - 1]] = IF n - 1 = L THEN NULL ELSE s[n]
        BY <3>1 DEF Chained, Link, L
    <3>3. QED
        BY <2>2, <3>1, <3>2
  <2>3. ASSUME NEW n \in 1 .. M, n # 1, ~(n - 1 <= L)
        PROVE  g[n] = link[g[n-1]]
    <3>1. n - 1 \in 1 .. M /\ ~(n <= L)
        BY <1>1, <2>3
    <3>2. QED
        BY <2>3, <3>1
  <2>4. QED
      BY <2>1, <2>2, <2>3
<1> DEFINE is(at) == at = [n \in 1 .. M |-> IF n = 1 THEN e ELSE link[at[n-1]]]
<1>4. is(g)
  <2>1. g = [n \in 1 .. M |-> g[n]]
      OBVIOUS
  <2>2. QED
      BY <1>3, <2>1
<1>5. is(h)
    BY <1>4
<1> HIDE DEF h
<1>6. \A n \in Nat : n \in {k \in Nat : k + 1 \in 1 .. M => h[k + 1] = g[k + 1]}
  <2> DEFINE S == {k \in Nat : k + 1 \in 1 .. M => h[k + 1] = g[k + 1]}
  <2>1. 0 \in S
      BY <1>1, <1>3, <1>5
  <2>2. ASSUME NEW k \in Nat, k \in S
        PROVE  k + 1 \in S
    <3>1. CASE (k + 1) + 1 \in 1 .. M
      <4>1. k + 1 \in 1 .. M /\ (k + 1) + 1 # 1 /\ ((k + 1) + 1) - 1 = k + 1
          BY <1>1, <3>1
      <4>2. h[(k + 1) + 1] = link[h[k + 1]] /\ g[(k + 1) + 1] = link[g[k + 1]]
        <5>1. h[(k + 1) + 1] = link[h[((k + 1) + 1) - 1]]
            BY <1>5, <3>1, <4>1
        <5>2. g[(k + 1) + 1] = link[g[((k + 1) + 1) - 1]]
            BY <1>3, <3>1, <4>1
        <5>3. QED
            BY <4>1, <5>1, <5>2
      <4>3. QED
          BY <2>2, <4>1, <4>2
    <3>2. QED
        BY <3>1
  <2> HIDE DEF S
  <2>3. \A n \in Nat : n \in S
      BY <2>1, <2>2, SetInduction
  <2>4. QED
      BY <2>3 DEF S
<1>7. h = g
  <2>1. ASSUME NEW n \in 1 .. M
        PROVE  h[n] = g[n]
    <3>1. n - 1 \in Nat /\ (n - 1) + 1 = n
        BY <1>1
    <3>2. QED
        BY <1>6, <3>1
  <2>2. h = [n \in 1 .. M |-> h[n]]
      BY <1>5
  <2>3. QED
      BY <2>1, <2>2
<1>8. Cardinality({n \in DOMAIN g : g[n] # NULL}) = L
  <2>1. {n \in DOMAIN g : g[n] # NULL} = 1 .. L
      BY <1>1
  <2>2. QED
      BY <1>1, <2>1, IntervalSize
<1>9. SubSeq(g, 1, L) = s
  <2>1. 1 \in Int /\ L \in Int /\ \A n \in 1 .. L : g[n] = s[n] /\ g[n] \in Elements
      BY <1>1
  <2> HIDE DEF g
  <2>2. /\ SubSeq(g, 1, L) \in Seq(Elements)
        /\ Len(SubSeq(g, 1, L)) = IF 1 <= L THEN L - 1 + 1 ELSE 0
        /\ \A n \in 1 .. L - 1 + 1 : SubSeq(g, 1, L)[n] = g[1 + n - 1]
      BY <2>1, SubSeqProperties
  <2>3. Len(SubSeq(g, 1, L)) = L /\ \A n \in 1 .. L : SubSeq(g, 1, L)[n] = s[n]
      BY <1>1, <2>1, <2>2
  <2>4. QED
      BY <1>1, <2>2, <2>3, SeqEqual DEF L
<1>10. QED
    BY <1>2, <1>7, <1>8, <1>9

-----------------------------------------------------------------------------
(* What the operations do to a chain *)

LEMMA ChainedKept ==
    ASSUME NEW s, NEW e, NEW link, NEW back, NEW link2, NEW back2, Chained(s, e, link, back),
           \A x \in Members(s) : link2[x] = link[x] /\ back2[x] = back[x]
    PROVE  Chained(s, e, link2, back2)
<1>1. \A n \in 1 .. Len(s) : s[n] \in Members(s)
    BY DEF Members, Chained
<1>2. QED
    BY <1>1 DEF Chained

(* x becomes the last. *)
Appends(s, link, back, x, link2, back2) ==
    /\ x \in Elements /\ x \notin Members(s)
    /\ link2[x] = NULL /\ back2[x] = IF s = << >> THEN NULL ELSE s[Len(s)]
    /\ s # << >> => link2[s[Len(s)]] = x /\ back2[s[Len(s)]] = back[s[Len(s)]]
    /\ \A y \in Members(s) : s # << >> /\ y # s[Len(s)] => link2[y] = link[y] /\ back2[y] = back[y]

LEMMA Appended ==
    ASSUME NEW s, NEW e, NEW link, NEW back, Chained(s, e, link, back), NEW link2, NEW back2, NEW x,
           Appends(s, link, back, x, link2, back2),
           NEW e2, e2 = IF s = << >> THEN x ELSE e
    PROVE  /\ Chained(Append(s, x), e2, link2, back2)
           /\ Members(Append(s, x)) = Members(s) \cup {x}
           /\ Len(Append(s, x)) = Len(s) + 1
<1>0. /\ x \in Elements /\ x \notin Members(s)
      /\ link2[x] = NULL /\ back2[x] = IF s = << >> THEN NULL ELSE s[Len(s)]
      /\ s # << >> => link2[s[Len(s)]] = x /\ back2[s[Len(s)]] = back[s[Len(s)]]
      /\ \A y \in Members(s) : s # << >> /\ y # s[Len(s)] => link2[y] = link[y] /\ back2[y] = back[y]
    BY DEF Appends
<1> DEFINE L == Len(s)
           t == Append(s, x)
<1>1. /\ s \in Seq(Elements) /\ L \in Nat /\ t \in Seq(Elements) /\ Len(t) = L + 1
      /\ \A n \in 1 .. L : t[n] = s[n] /\ s[n] \in Members(s)
      /\ t[L + 1] = x /\ (s = << >> <=> L = 0) /\ t # << >>
      /\ DOMAIN s = 1 .. L /\ DOMAIN t = 1 .. L + 1
    BY <1>0 DEF Chained, Members
<1> HIDE DEF t, L
<1>2. \A n \in 1 .. L + 1 : n \in 1 .. L \/ n = L + 1
    BY <1>1
<1>3. Members(t) = Members(s) \cup {x}
  <2>1. ASSUME NEW y \in Members(t)
        PROVE  y \in Members(s) \cup {x}
    <3>1. PICK n \in 1 .. L + 1 : t[n] = y
        BY <1>1 DEF Members
    <3>2. QED
        BY <1>1, <1>2, <3>1
  <2>2. ASSUME NEW y \in Members(s)
        PROVE  y \in Members(t)
    <3>1. PICK n \in 1 .. L : s[n] = y
        BY <1>1 DEF Members
    <3>2. n \in 1 .. L + 1 /\ t[n] = y
        BY <1>1, <3>1
    <3>3. QED
        BY <1>1, <3>2 DEF Members
  <2>3. x \in Members(t)
    <3>1. L + 1 \in 1 .. L + 1
        BY <1>1
    <3>2. QED
        BY <1>1, <3>1 DEF Members
  <2>4. QED
      BY <2>1, <2>2, <2>3
<1>4. Once(t)
    BY <1>0, <1>1, <1>2 DEF Once, Chained, Members
<1>5. First(t) = e2
  <2>1. CASE L = 0
      BY <1>1, <2>1 DEF First
  <2>2. CASE L # 0
    <3>1. 1 \in 1 .. L
        BY <1>1, <2>2
    <3>2. QED
        BY <1>1, <2>2, <3>1 DEF First, Chained
  <2>3. QED
      BY <2>1, <2>2
<1>6. ASSUME NEW n \in 1 .. L, n # L
      PROVE  link2[t[n]] = Link(t, n) /\ back2[t[n]] = BackLink(t, n)
  <2>1. /\ n + 1 \in 1 .. L /\ L \in 1 .. L /\ n # L + 1
        /\ (n # 1 => n - 1 \in 1 .. L)
      BY <1>1, <1>6
  <2>2. s[n] \in Members(s) /\ s # << >> /\ s[n] # s[L]
      BY <1>1, <1>6, <2>1 DEF Chained, Once
  <2>3. link2[s[n]] = Link(s, n) /\ back2[s[n]] = BackLink(s, n)
      BY <1>0, <2>2 DEF Chained, L
  <2>4. t[n] = s[n] /\ Link(t, n) = t[n + 1] /\ Link(s, n) = s[n + 1] /\ t[n + 1] = s[n + 1]
      BY <1>1, <1>6, <2>1 DEF Link, L
  <2>5. BackLink(t, n) = BackLink(s, n)
      BY <1>1, <2>1 DEF BackLink
  <2>6. QED
      BY <2>3, <2>4, <2>5
<1>7. ASSUME L # 0
      PROVE  link2[t[L]] = Link(t, L) /\ back2[t[L]] = BackLink(t, L)
  <2>1. L \in 1 .. L /\ L # L + 1 /\ (L # 1 => L - 1 \in 1 .. L)
      BY <1>1, <1>7
  <2>2. back[s[L]] = BackLink(s, L)
      BY <2>1 DEF Chained, L
  <2>3. link2[s[L]] = x /\ back2[s[L]] = BackLink(s, L)
      BY <1>0, <1>1, <1>7, <2>2 DEF L
  <2>4. Link(t, L) = x /\ BackLink(t, L) = BackLink(s, L) /\ t[L] = s[L]
      BY <1>1, <2>1 DEF Link, BackLink
  <2>5. QED
      BY <2>3, <2>4
<1>8. link2[t[L + 1]] = Link(t, L + 1) /\ back2[t[L + 1]] = BackLink(t, L + 1)
  <2>1. Link(t, L + 1) = NULL
      BY <1>1 DEF Link
  <2>2. BackLink(t, L + 1) = IF L = 0 THEN NULL ELSE s[L]
    <3>1. CASE L = 0
        BY <1>1, <3>1 DEF BackLink
    <3>2. CASE L # 0
      <4>1. L + 1 # 1 /\ (L + 1) - 1 = L /\ L \in 1 .. L
          BY <1>1, <3>2
      <4>2. QED
          BY <1>1, <3>2, <4>1 DEF BackLink
    <3>3. QED
        BY <3>1, <3>2
  <2>3. QED
      BY <1>0, <1>1, <2>1, <2>2 DEF L
<1>9. \A n \in 1 .. L + 1 : link2[t[n]] = Link(t, n) /\ back2[t[n]] = BackLink(t, n)
  <2>1. ASSUME NEW n \in 1 .. L + 1
        PROVE  link2[t[n]] = Link(t, n) /\ back2[t[n]] = BackLink(t, n)
    <3>1. (n \in 1 .. L /\ n # L) \/ (n = L /\ L # 0) \/ n = L + 1
        BY <1>1
    <3>2. QED
        BY <1>6, <1>7, <1>8, <3>1
  <2>2. QED
      BY <2>1
<1>10. QED
    BY <1>1, <1>3, <1>4, <1>5, <1>9 DEF Chained, t, L

LEMMA Pushed ==
    ASSUME NEW s, NEW e, NEW link, NEW back, Chained(s, e, link, back), NEW link2, NEW back2,
           NEW x \in Elements, x \notin Members(s), link2[x] = e, back2[x] = NULL,
           \A y \in Members(s) : link2[y] = link[y] /\ back2[y] = IF y = e THEN x ELSE back[y]
    PROVE  /\ Chained(<<x>> \o s, x, link2, back2)
           /\ Members(<<x>> \o s) = Members(s) \cup {x}
           /\ Len(<<x>> \o s) = Len(s) + 1
<1> DEFINE L == Len(s)
           t == <<x>> \o s
<1>1. /\ s \in Seq(Elements) /\ L \in Nat /\ t \in Seq(Elements) /\ Len(t) = L + 1
      /\ \A n \in 1 .. L : t[n + 1] = s[n] /\ s[n] \in Members(s)
      /\ t[1] = x /\ (s = << >> <=> L = 0) /\ t # << >>
      /\ DOMAIN s = 1 .. L /\ DOMAIN t = 1 .. L + 1
    BY DEF Chained, Members
<1> HIDE DEF t, L
<1>2. ASSUME NEW n \in 1 .. L + 1, n # 1
      PROVE  \E k \in 1 .. L : n = k + 1 /\ t[n] = s[k] /\ t[n] \in Members(s)
  <2>1. PICK k : k = n - 1
      OBVIOUS
  <2>2. k \in 1 .. L /\ n = k + 1
      BY <1>1, <1>2, <2>1
  <2>3. QED
      BY <1>1, <2>2
<1>3. Members(t) = Members(s) \cup {x}
  <2>1. ASSUME NEW y \in Members(t)
        PROVE  y \in Members(s) \cup {x}
    <3>1. PICK n \in 1 .. L + 1 : t[n] = y
        BY <1>1 DEF Members
    <3>2. QED
        BY <1>1, <1>2, <3>1
  <2>2. ASSUME NEW y \in Members(s)
        PROVE  y \in Members(t)
    <3>1. PICK n \in 1 .. L : s[n] = y
        BY <1>1 DEF Members
    <3>2. n + 1 \in 1 .. L + 1 /\ t[n + 1] = y
        BY <1>1, <3>1
    <3>3. QED
        BY <1>1, <3>2 DEF Members
  <2>3. x \in Members(t)
    <3>1. 1 \in 1 .. L + 1
        BY <1>1
    <3>2. QED
        BY <1>1, <3>1 DEF Members
  <2>4. QED
      BY <2>1, <2>2, <2>3
<1>4. Once(t)
  <2>1. SUFFICES ASSUME NEW m \in 1 .. L + 1, NEW n \in 1 .. L + 1, t[m] = t[n]
                 PROVE  m = n
      BY <1>1 DEF Once
  <2>2. CASE m = 1 \/ n = 1
      BY <1>1, <1>2, <2>1, <2>2
  <2>3. CASE m # 1 /\ n # 1
    <3>1. PICK j \in 1 .. L : m = j + 1 /\ t[m] = s[j]
        BY <1>2, <2>3
    <3>2. PICK k \in 1 .. L : n = k + 1 /\ t[n] = s[k]
        BY <1>2, <2>3
    <3>3. j = k
      <4>1. Once(s) /\ s[j] = s[k] /\ j \in DOMAIN s /\ k \in DOMAIN s
          BY <1>1, <2>1, <3>1, <3>2 DEF Chained
      <4>2. QED
          BY <4>1 DEF Once
    <3>4. QED
        BY <3>1, <3>2, <3>3
  <2>4. QED
      BY <2>2, <2>3
<1>5. First(t) = x
    BY <1>1 DEF First
<1>6. ASSUME NEW n \in 1 .. L + 1
      PROVE  link2[t[n]] = Link(t, n) /\ back2[t[n]] = BackLink(t, n)
  <2>1. CASE n = 1
    <3>1. Link(t, 1) = First(s)
      <4>1. CASE L = 0
          BY <1>1, <4>1 DEF Link, First
      <4>2. CASE L # 0
        <5>1. 1 \in 1 .. L /\ 1 # L + 1
            BY <1>1, <4>2
        <5>2. QED
            BY <1>1, <4>2, <5>1 DEF Link, First
      <4>3. QED
          BY <4>1, <4>2
    <3>2. QED
        BY <1>1, <2>1, <3>1 DEF Chained, BackLink
  <2>2. CASE n # 1
    <3>1. PICK k \in 1 .. L : t[n] = s[k] /\ k + 1 = n /\ s[k] \in Members(s)
        BY <1>2, <2>2
    <3>a. k = n - 1
        BY <3>1
    <3>2. link[s[k]] = Link(s, k) /\ back[s[k]] = BackLink(s, k)
        BY <3>1 DEF Chained, L
    <3>3. Link(t, n) = Link(s, k)
      <4>1. CASE k = L
          BY <1>1, <3>1, <4>1 DEF Link, L
      <4>2. CASE k # L
        <5>1. k + 1 \in 1 .. L /\ n # L + 1
            BY <1>1, <3>1, <4>2
        <5>2. QED
            BY <1>1, <3>1, <4>2, <5>1 DEF Link, L
      <4>3. QED
          BY <4>1, <4>2
    <3>4. back2[s[k]] = BackLink(t, n)
      <4>1. CASE k = 1
        <5>1. s[k] = e
            BY <1>1, <3>1, <4>1 DEF Chained, First
        <5>2. BackLink(t, n) = x
            BY <1>1, <2>2, <3>1, <3>a, <4>1 DEF BackLink
        <5>3. QED
            BY <3>1, <5>1, <5>2
      <4>2. CASE k # 1
        <5>1. 1 \in 1 .. L /\ k - 1 \in 1 .. L /\ (k - 1) + 1 = k
            BY <1>1, <3>1, <4>2
        <5>2. s[k] # e
            BY <1>1, <3>1, <4>2, <5>1 DEF Chained, First, Once
        <5>3. BackLink(t, n) = t[k] /\ BackLink(s, k) = s[k - 1] /\ t[k] = s[k - 1]
            BY <1>1, <2>2, <3>a, <4>2, <5>1 DEF BackLink
        <5>4. QED
            BY <3>1, <3>2, <5>2, <5>3
      <4>3. QED
          BY <4>1, <4>2
    <3>5. QED
        BY <3>1, <3>2, <3>3, <3>4
  <2>3. QED
      BY <2>1, <2>2
<1>7. QED
    BY <1>1, <1>3, <1>4, <1>5, <1>6 DEF Chained, t, L

Without(s, i) == [n \in 1 .. Len(s) - 1 |-> IF n < i THEN s[n] ELSE s[n + 1]]

LEMMA WithoutOne ==
    ASSUME NEW s \in Seq(Elements), Once(s), NEW i \in 1 .. Len(s)
    PROVE  /\ Without(s, i) \in Seq(Elements) /\ Len(Without(s, i)) = Len(s) - 1
           /\ Once(Without(s, i)) /\ Members(Without(s, i)) = Members(s) \ {s[i]}
<1> DEFINE L == Len(s)
           t == Without(s, i)
<1>1. /\ L \in Nat /\ L - 1 \in Nat /\ i \in 1 .. L /\ DOMAIN s = 1 .. L
      /\ \A n \in 1 .. L : s[n] \in Elements
    OBVIOUS
<1>2. /\ DOMAIN t = 1 .. L - 1
      /\ \A n \in 1 .. L - 1 : t[n] = IF n < i THEN s[n] ELSE s[n + 1]
    BY DEF Without
<1>3. t = [n \in 1 .. L - 1 |-> t[n]]
    BY DEF Without
<1> HIDE DEF L, t
<1>4. \A n \in 1 .. L - 1 : \E k \in 1 .. L : t[n] = s[k] /\ k # i /\ ((k = n /\ n < i) \/ (k = n + 1 /\ ~(n < i)))
  <2>1. ASSUME NEW n \in 1 .. L - 1, n < i
        PROVE  n \in 1 .. L /\ n # i /\ t[n] = s[n]
      BY <1>1, <1>2, <2>1
  <2>2. ASSUME NEW n \in 1 .. L - 1, ~(n < i)
        PROVE  n + 1 \in 1 .. L /\ n + 1 # i /\ t[n] = s[n + 1]
      BY <1>1, <1>2, <2>2
  <2>3. QED
      BY <2>1, <2>2
<1>5. t \in Seq(Elements) /\ Len(t) = L - 1
  <2>1. \A n \in 1 .. L - 1 : t[n] \in Elements
      BY <1>1, <1>4
  <2>2. t \in Seq(Elements)
      BY <1>1, <1>3, <2>1
  <2>3. QED
      BY <1>1, <1>2, <2>2
<1>6. Once(t)
  <2>1. SUFFICES ASSUME NEW m \in 1 .. L - 1, NEW n \in 1 .. L - 1, t[m] = t[n]
                 PROVE  m = n
      BY <1>2 DEF Once
  <2>2. PICK j \in 1 .. L : t[m] = s[j] /\ j # i /\ ((j = m /\ m < i) \/ (j = m + 1 /\ ~(m < i)))
      BY <1>4
  <2>3. PICK k \in 1 .. L : t[n] = s[k] /\ k # i /\ ((k = n /\ n < i) \/ (k = n + 1 /\ ~(n < i)))
      BY <1>4
  <2>4. s[j] = s[k] /\ j \in DOMAIN s /\ k \in DOMAIN s
      BY <1>1, <2>1, <2>2, <2>3
  <2>5. j = k
      BY <2>4 DEF Once
  <2>6. QED
      BY <1>1, <2>2, <2>3, <2>5
<1>7. Members(t) \subseteq Members(s) \ {s[i]}
  <2>1. SUFFICES ASSUME NEW n \in 1 .. L - 1
                 PROVE  t[n] \in Members(s) /\ t[n] # s[i]
      BY <1>2 DEF Members
  <2>2. PICK k \in 1 .. L : t[n] = s[k] /\ k # i
      BY <1>4
  <2>3. QED
      BY <1>1, <2>2 DEF Members, Once
<1>8. Members(s) \ {s[i]} \subseteq Members(t)
  <2>1. SUFFICES ASSUME NEW k \in 1 .. L, k # i
                 PROVE  s[k] \in Members(t)
      BY <1>1 DEF Members
  <2>2. PICK n : n = IF k < i THEN k ELSE k - 1
      OBVIOUS
  <2>3. n \in 1 .. L - 1 /\ (n < i => n = k) /\ (~(n < i) => n + 1 = k)
      BY <1>1, <2>1, <2>2
  <2>4. t[n] = s[k]
      BY <1>2, <2>3
  <2>5. QED
      BY <1>2, <2>3, <2>4 DEF Members
<1>9. QED
    BY <1>5, <1>6, <1>7, <1>8 DEF t, L

LEMMA Removed ==
    ASSUME NEW s, NEW e, NEW link, NEW back, Chained(s, e, link, back), NEW link2, NEW back2,
           NEW i \in 1 .. Len(s),
           \A y \in Members(s) :
              /\ link2[y] = IF y = back[s[i]] THEN link[s[i]] ELSE link[y]
              /\ back2[y] = IF y = link[s[i]] THEN back[s[i]] ELSE back[y]
    PROVE  Chained(Without(s, i), IF e = s[i] THEN link[s[i]] ELSE e, link2, back2)
<1> DEFINE L == Len(s)
           t == Without(s, i)
<1>1. /\ s \in Seq(Elements) /\ L \in Nat /\ L - 1 \in Nat /\ i \in 1 .. L /\ DOMAIN s = 1 .. L
      /\ \A n \in 1 .. L : s[n] \in Elements /\ s[n] \in Members(s) /\ s[n] # NULL
      /\ s # << >>
    BY UthashAssumption DEF Chained, Members
<1>2. \A j, k \in 1 .. L : s[j] = s[k] => j = k
    BY <1>1 DEF Chained, Once
<1>3. /\ t \in Seq(Elements) /\ Len(t) = L - 1 /\ Once(t)
      /\ \A n \in 1 .. L - 1 : t[n] = IF n < i THEN s[n] ELSE s[n + 1]
    BY WithoutOne DEF Chained, Without
<1>4. /\ link[s[i]] = IF i = L THEN NULL ELSE s[i + 1]
      /\ back[s[i]] = IF i = 1 THEN NULL ELSE s[i - 1]
    BY DEF Chained, Link, BackLink
<1>5. \A n \in 1 .. L :
        /\ link[s[n]] = IF n = L THEN NULL ELSE s[n + 1]
        /\ back[s[n]] = IF n = 1 THEN NULL ELSE s[n - 1]
    BY DEF Chained, Link, BackLink
<1>6. \A n \in 1 .. L :
        /\ link2[s[n]] = IF n + 1 = i THEN link[s[i]] ELSE link[s[n]]
        /\ back2[s[n]] = IF n = i + 1 THEN back[s[i]] ELSE back[s[n]]
  <2>1. ASSUME NEW n \in 1 .. L
        PROVE  s[n] = back[s[i]] <=> n + 1 = i
    <3>1. CASE i = 1
        BY <1>1, <1>4, <3>1
    <3>2. CASE i # 1
      <4>1. i \in 1 .. L /\ L \in Nat
          BY <1>1
      <4>2. i - 1 \in 1 .. L /\ (n = i - 1 <=> n + 1 = i)
          BY <3>2, <4>1
      <4>3. back[s[i]] = s[i - 1]
          BY <1>4, <3>2
      <4>4. QED
          BY <1>2, <4>2, <4>3
    <3>3. QED
        BY <3>1, <3>2
  <2>2. ASSUME NEW n \in 1 .. L
        PROVE  s[n] = link[s[i]] <=> n = i + 1
    <3>1. CASE i = L
        BY <1>1, <1>4, <3>1
    <3>2. CASE i # L
      <4>1. i \in 1 .. L /\ L \in Nat
          BY <1>1
      <4>2. i + 1 \in 1 .. L
          BY <3>2, <4>1
      <4>3. link[s[i]] = s[i + 1]
          BY <1>4, <3>2
      <4>4. QED
          BY <1>2, <4>2, <4>3
    <3>3. QED
        BY <3>1, <3>2
  <2>3. QED
      BY <1>1, <2>1, <2>2
<1> HIDE DEF L, t
<1>7. (IF e = s[i] THEN link[s[i]] ELSE e) = First(t)
  <2>1. e = s[1] /\ 1 \in 1 .. L /\ (e = s[i] <=> i = 1)
      BY <1>1, <1>2 DEF Chained, First
  <2>2. CASE L = 1
    <3>1. t = << >> /\ i = 1
        BY <1>1, <1>3, <2>2
    <3>2. QED
        BY <1>4, <2>1, <2>2, <3>1 DEF First
  <2>3. CASE L # 1
    <3>1. t # << >> /\ 1 \in 1 .. L - 1 /\ (i = 1 => i # L)
        BY <1>1, <1>3, <2>3
    <3>2. First(t) = IF 1 < i THEN s[1] ELSE s[1 + 1]
        BY <1>3, <3>1 DEF First
    <3>3. 1 < i <=> i # 1
        BY <1>1
    <3>4. QED
        BY <1>4, <2>1, <3>1, <3>2, <3>3
  <2>4. QED
      BY <2>2, <2>3
<1>8. ASSUME NEW n \in 1 .. L - 1
      PROVE  link2[t[n]] = Link(t, n) /\ back2[t[n]] = BackLink(t, n)
  <2>1. Link(t, n) = IF n = L - 1 THEN NULL ELSE IF n + 1 < i THEN s[n + 1] ELSE s[n + 1 + 1]
    <3>1. n # L - 1 => n + 1 \in 1 .. L - 1
        BY <1>1
    <3>2. QED
        BY <1>3, <3>1 DEF Link
  <2>2. BackLink(t, n) = IF n = 1 THEN NULL ELSE IF n - 1 < i THEN s[n - 1] ELSE s[n]
    <3>1. n # 1 => n - 1 \in 1 .. L - 1 /\ (n - 1) + 1 = n
        BY <1>1
    <3>2. QED
        BY <1>3, <3>1 DEF BackLink
  <2>3. CASE n < i
    <3>1. /\ n \in 1 .. L /\ n # L /\ n # i + 1 /\ t[n] = s[n] /\ (n # 1 => n - 1 < i)
          /\ (n + 1 = i => (i = L <=> n = L - 1) /\ ~(n + 1 < i))
          /\ (n + 1 # i => n # L - 1 /\ n + 1 < i)
        BY <1>1, <1>3, <2>3
    <3>2. link2[s[n]] = IF n + 1 = i THEN IF i = L THEN NULL ELSE s[i + 1] ELSE s[n + 1]
        BY <1>4, <1>5, <1>6, <3>1
    <3>3. back2[s[n]] = IF n = 1 THEN NULL ELSE s[n - 1]
        BY <1>5, <1>6, <3>1
    <3>4. link2[s[n]] = Link(t, n)
        BY <2>1, <3>1, <3>2
    <3>5. QED
        BY <2>2, <3>1, <3>3, <3>4
  <2>4. CASE ~(n < i)
    <3>0. PICK k : k = n + 1
        OBVIOUS
    <3>1. /\ k \in 1 .. L /\ k + 1 # i /\ t[n] = s[k] /\ ~(k < i) /\ k # 1
          /\ (k = L <=> n = L - 1) /\ (k = i + 1 <=> n = i) /\ k - 1 = n
          /\ (n = i => n - 1 < i /\ (n = 1 <=> i = 1))
          /\ (n # i => n # 1 /\ ~(n - 1 < i))
        BY <1>1, <1>3, <2>4, <3>0
    <3>2. link2[s[k]] = IF k = L THEN NULL ELSE s[k + 1]
        BY <1>5, <1>6, <3>1
    <3>3. back2[s[k]] = IF n = i THEN IF i = 1 THEN NULL ELSE s[i - 1] ELSE s[n]
      <4>1. back2[s[k]] = IF k = i + 1 THEN back[s[i]] ELSE back[s[k]]
          BY <1>6, <3>1
      <4>2. back[s[k]] = s[n]
          BY <1>5, <3>1
      <4>3. QED
          BY <1>4, <3>1, <4>1, <4>2
    <3>4. link2[s[k]] = Link(t, n)
        BY <2>1, <3>0, <3>1, <3>2
    <3>5. back2[s[k]] = BackLink(t, n)
        BY <2>2, <3>1, <3>3
    <3>6. QED
        BY <3>1, <3>4, <3>5
  <2>5. QED
      BY <2>3, <2>4
<1>9. QED
    BY <1>3, <1>7, <1>8 DEF Chained, t, L

-----------------------------------------------------------------------------
(* The buckets of a table: S is the set of the elements that are in it. *)

Prevs(h)   == [x \in Elements |-> h[x].prev]
HhPrevs(h) == [x \in Elements |-> h[x].hh_prev]

IsTable(t) ==
    t \in [tail : Pointers, num_buckets : Nat, num_items : Nat, ineff_expands : Nat,
           noexpand : {0, 1}, buckets : [0 .. t.num_buckets - 1 -> UT_hash_bucket]]

InBucket(h, num_bkts, S, b) == {e \in S : HASH_TO_BKT(h[e].hashv, num_bkts) = b}

WholeBucket(bkt, h, B) ==
    \E c : /\ Chained(c, bkt.hh_head, HhNexts(h), HhPrevs(h))
           /\ Members(c) = B /\ bkt.count = Len(c)

WholeBuckets(t, h, S) ==
    /\ IsTable(t) /\ t.num_buckets # 0
    /\ h \in [Elements -> UT_hash_handle] /\ S \subseteq Elements
    /\ \A b \in 0 .. t.num_buckets - 1 :
          WholeBucket(t.buckets[b], h, InBucket(h, t.num_buckets, S, b))

LEMMA BucketExists ==
    ASSUME NEW hashv \in Nat, NEW num_bkts \in Nat, num_bkts # 0
    PROVE  HASH_TO_BKT(hashv, num_bkts) \in 0 .. num_bkts - 1
<1>1. hashv % num_bkts \in 0 .. num_bkts - 1
    OBVIOUS
<1>2. QED
    BY <1>1 DEF HASH_TO_BKT

LEMMA HandleLinks ==
    ASSUME NEW h, NEW x \in Elements
    PROVE  /\ HhNexts(h)[x] = h[x].hh_next /\ HhPrevs(h)[x] = h[x].hh_prev /\ HhNexts(h)[NULL] = NULL
           /\ Nexts(h)[x] = h[x].next /\ Prevs(h)[x] = h[x].prev /\ Nexts(h)[NULL] = NULL
<1>1. x # NULL /\ x \in Pointers /\ NULL \in Pointers
    BY UthashAssumption DEF Pointers
<1>2. QED
    BY <1>1 DEF HhNexts, HhPrevs, Nexts, Prevs

(* What a bucket is made of does not depend on the rest of the handles. *)
LEMMA BucketKept ==
    ASSUME NEW bkt, NEW h, NEW h2, NEW B \in SUBSET Elements, WholeBucket(bkt, h, B),
           \A e \in B : h2[e].hh_next = h[e].hh_next /\ h2[e].hh_prev = h[e].hh_prev
    PROVE  WholeBucket(bkt, h2, B)
<1>1. PICK c : /\ Chained(c, bkt.hh_head, HhNexts(h), HhPrevs(h))
               /\ Members(c) = B /\ bkt.count = Len(c)
    BY DEF WholeBucket
<1>2. \A x \in Members(c) : HhNexts(h2)[x] = HhNexts(h)[x] /\ HhPrevs(h2)[x] = HhPrevs(h)[x]
    BY <1>1, HandleLinks
<1>3. Chained(c, bkt.hh_head, HhNexts(h2), HhPrevs(h2))
    BY <1>1, <1>2, ChainedKept
<1>4. QED
    BY <1>1, <1>3 DEF WholeBucket

LEMMA BucketsKept ==
    ASSUME NEW t, NEW h, NEW S, WholeBuckets(t, h, S), NEW t2, NEW h2,
           IsTable(t2), t2.num_buckets = t.num_buckets, t2.buckets = t.buckets,
           h2 \in [Elements -> UT_hash_handle],
           \A e \in S : /\ h2[e].hh_next = h[e].hh_next /\ h2[e].hh_prev = h[e].hh_prev
                        /\ h2[e].hashv = h[e].hashv
    PROVE  WholeBuckets(t2, h2, S)
<1>1. ASSUME NEW b \in 0 .. t.num_buckets - 1
      PROVE  WholeBucket(t2.buckets[b], h2, InBucket(h2, t2.num_buckets, S, b))
  <2>1. /\ InBucket(h2, t2.num_buckets, S, b) = InBucket(h, t.num_buckets, S, b)
        /\ InBucket(h, t.num_buckets, S, b) \subseteq S
      BY DEF InBucket
  <2>2. WholeBucket(t.buckets[b], h, InBucket(h, t.num_buckets, S, b)) /\ S \subseteq Elements
      BY DEF WholeBuckets
  <2>3. WholeBucket(t.buckets[b], h2, InBucket(h, t.num_buckets, S, b))
      BY <2>1, <2>2, BucketKept
  <2>4. QED
      BY <2>1, <2>3
<1>2. QED
    BY <1>1 DEF WholeBuckets

-----------------------------------------------------------------------------
(* AddToBkt, before it expands *)

Counted(t, b, e) == [t EXCEPT !.buckets[b].count = @ + 1, !.buckets[b].hh_head = e]

Pushing(t, h, b, e) ==
    [x \in Elements |->
        IF x = e THEN [h[e] EXCEPT !.hh_next = t.buckets[b].hh_head, !.hh_prev = NULL]
        ELSE IF x = t.buckets[b].hh_head THEN [h[x] EXCEPT !.hh_prev = e]
        ELSE h[x]]

LEMMA CountedFields ==
    ASSUME NEW t, IsTable(t), NEW b \in 0 .. t.num_buckets - 1, NEW e \in Elements
    PROVE  /\ IsTable(Counted(t, b, e))
           /\ Counted(t, b, e).num_buckets = t.num_buckets /\ Counted(t, b, e).num_items = t.num_items
           /\ Counted(t, b, e).tail = t.tail /\ Counted(t, b, e).noexpand = t.noexpand
           /\ Counted(t, b, e).ineff_expands = t.ineff_expands
           /\ Counted(t, b, e).buckets[b] = [hh_head |-> e, count |-> t.buckets[b].count + 1,
                                             expand_mult |-> t.buckets[b].expand_mult]
           /\ \A c \in 0 .. t.num_buckets - 1 : c # b => Counted(t, b, e).buckets[c] = t.buckets[c]
<1> DEFINE t2 == Counted(t, b, e)
           new == [hh_head |-> e, count |-> t.buckets[b].count + 1,
                   expand_mult |-> t.buckets[b].expand_mult]
<1>1. /\ t.buckets \in [0 .. t.num_buckets - 1 -> UT_hash_bucket] /\ t.buckets[b] \in UT_hash_bucket
      /\ t.buckets[b].count \in Nat
    BY DEF IsTable, UT_hash_bucket
<1>2. new \in UT_hash_bucket
    BY <1>1 DEF UT_hash_bucket, Pointers
<1>3. [[t.buckets[b] EXCEPT !.count = @ + 1] EXCEPT !.hh_head = e] = new
  <2>1. PICK k : k = t.buckets[b]
      OBVIOUS
  <2>2. PICK k2 : k2 = [k EXCEPT !.count = k.count + 1]
      OBVIOUS
  <2>3. k2 = [hh_head |-> k.hh_head, count |-> k.count + 1, expand_mult |-> k.expand_mult]
      BY <1>1, <2>1, <2>2 DEF UT_hash_bucket
  <2>4. [k2 EXCEPT !.hh_head = e]
            = [hh_head |-> e, count |-> k.count + 1, expand_mult |-> k.expand_mult]
      BY <2>3
  <2>5. QED
      BY <2>1, <2>2, <2>4
<1>4. t2 = [t EXCEPT !.buckets = [t.buckets EXCEPT ![b] = new]]
    BY <1>1, <1>3 DEF Counted, IsTable
<1> HIDE DEF t2, new
<1>5. /\ t2.num_buckets = t.num_buckets /\ t2.num_items = t.num_items /\ t2.tail = t.tail
      /\ t2.noexpand = t.noexpand /\ t2.ineff_expands = t.ineff_expands
      /\ t2.buckets = [t.buckets EXCEPT ![b] = new]
      /\ t2 = [tail |-> t.tail, num_buckets |-> t.num_buckets, num_items |-> t.num_items,
               ineff_expands |-> t.ineff_expands, noexpand |-> t.noexpand,
               buckets |-> [t.buckets EXCEPT ![b] = new]]
    BY <1>4 DEF IsTable
<1>6. [t.buckets EXCEPT ![b] = new] \in [0 .. t.num_buckets - 1 -> UT_hash_bucket]
    BY <1>1, <1>2
<1>7. IsTable(t2)
    BY <1>5, <1>6 DEF IsTable
<1>8. QED
    BY <1>1, <1>5, <1>7 DEF t2, new

LEMMA BucketPushed ==
    ASSUME NEW t, NEW h, NEW S, WholeBuckets(t, h, S), NEW e \in Elements, e \notin S,
           NEW b, b = HASH_TO_BKT(h[e].hashv, t.num_buckets)
    PROVE  WholeBuckets(Counted(t, b, e), Pushing(t, h, b, e), S \cup {e})
<1> DEFINE t2 == Counted(t, b, e)
           h2 == Pushing(t, h, b, e)
           nb == t.num_buckets
           first == t.buckets[b].hh_head
<1>1. /\ IsTable(t) /\ nb \in Nat /\ nb # 0 /\ S \subseteq Elements
      /\ h \in [Elements -> UT_hash_handle]
    BY DEF WholeBuckets, IsTable
<1>2. \A x \in Elements : h[x].hashv \in Nat /\ h[x] \in UT_hash_handle
    BY <1>1 DEF UT_hash_handle
<1>3. b \in 0 .. nb - 1
    BY <1>1, <1>2, BucketExists
<1>4. /\ IsTable(t2) /\ t2.num_buckets = nb
      /\ t2.buckets[b] = [hh_head |-> e, count |-> t.buckets[b].count + 1,
                          expand_mult |-> t.buckets[b].expand_mult]
      /\ \A c \in 0 .. nb - 1 : c # b => t2.buckets[c] = t.buckets[c]
    BY <1>1, <1>3, CountedFields
<1>5. first \in Pointers /\ t.buckets[b].count \in Nat
    BY <1>1, <1>3 DEF IsTable, UT_hash_bucket
<1>6. ASSUME NEW x \in Elements
      PROVE  /\ h2[x] \in UT_hash_handle /\ h2[x].hashv = h[x].hashv
             /\ h2[x].hh_next = IF x = e THEN first ELSE h[x].hh_next
             /\ h2[x].hh_prev = IF x = e THEN NULL ELSE IF x = first THEN e ELSE h[x].hh_prev
             /\ h2[x].next = h[x].next /\ h2[x].prev = h[x].prev
  <2>1. h2[x] = IF x = e THEN [h[e] EXCEPT !.hh_next = first, !.hh_prev = NULL]
                ELSE IF x = first THEN [h[x] EXCEPT !.hh_prev = e] ELSE h[x]
      BY DEF Pushing
  <2>2. NULL \in Pointers /\ e \in Pointers /\ h[x] \in UT_hash_handle
      BY <1>2 DEF Pointers
  <2> HIDE DEF h2, first
  <2>3. QED
      BY <1>5, <2>1, <2>2 DEF UT_hash_handle
<1>7. h2 \in [Elements -> UT_hash_handle]
  <2>1. h2 = [x \in Elements |-> h2[x]]
      BY DEF Pushing
  <2> HIDE DEF h2
  <2>2. QED
      BY <1>6, <2>1
<1> HIDE DEF t2, h2, nb, first
<1>8. /\ InBucket(h2, nb, S \cup {e}, b) = InBucket(h, nb, S, b) \cup {e}
      /\ \A c \in 0 .. nb - 1 : c # b => InBucket(h2, nb, S \cup {e}, c) = InBucket(h, nb, S, c)
    BY <1>1, <1>6 DEF InBucket, nb
<1>9. PICK s : /\ Chained(s, first, HhNexts(h), HhPrevs(h))
               /\ Members(s) = InBucket(h, nb, S, b) /\ t.buckets[b].count = Len(s)
    BY <1>3 DEF WholeBuckets, WholeBucket, nb, first
<1>10. /\ \A y \in Members(s) : y \in Elements /\ y # e /\ HASH_TO_BKT(h[y].hashv, nb) = b
       /\ first # NULL => first \in Members(s)
  <2>1. s # << >> => 1 \in DOMAIN s
      BY <1>9 DEF Chained
  <2>2. QED
      BY <1>1, <1>9, <2>1 DEF InBucket, Chained, First, Members
<1>11. WholeBucket(t2.buckets[b], h2, InBucket(h2, nb, S \cup {e}, b))
  <2>1. HhNexts(h2)[e] = first /\ HhPrevs(h2)[e] = NULL
      BY <1>6, HandleLinks
  <2>2. \A y \in Members(s) : /\ HhNexts(h2)[y] = HhNexts(h)[y]
                              /\ HhPrevs(h2)[y] = IF y = first THEN e ELSE HhPrevs(h)[y]
      BY <1>6, <1>10, HandleLinks
  <2>3. e \notin Members(s)
      BY <1>10
  <2>4. /\ Chained(<<e>> \o s, e, HhNexts(h2), HhPrevs(h2))
        /\ Members(<<e>> \o s) = Members(s) \cup {e} /\ Len(<<e>> \o s) = Len(s) + 1
      BY <1>9, <2>1, <2>2, <2>3, Pushed
  <2>5. /\ InBucket(h2, nb, S \cup {e}, b) = Members(<<e>> \o s)
        /\ t2.buckets[b].count = Len(<<e>> \o s) /\ t2.buckets[b].hh_head = e
    <3>1. InBucket(h2, nb, S \cup {e}, b) = Members(<<e>> \o s)
        BY <1>8, <1>9, <2>4
    <3>2. t2.buckets[b].count = t.buckets[b].count + 1 /\ t2.buckets[b].hh_head = e
        BY <1>4
    <3>3. QED
        BY <1>9, <2>4, <3>1, <3>2
  <2>6. QED
      BY <2>4, <2>5 DEF WholeBucket
<1>12. ASSUME NEW c \in 0 .. nb - 1, c # b
       PROVE  WholeBucket(t2.buckets[c], h2, InBucket(h2, nb, S \cup {e}, c))
  <2>1. InBucket(h2, nb, S \cup {e}, c) = InBucket(h, nb, S, c) /\ t2.buckets[c] = t.buckets[c]
      BY <1>4, <1>8, <1>12
  <2>2. \A y \in InBucket(h, nb, S, c) : y \in Elements /\ y # e /\ y # first
      BY <1>1, <1>10, <1>12, UthashAssumption DEF InBucket
  <2>3. InBucket(h, nb, S, c) \in SUBSET Elements /\ WholeBucket(t.buckets[c], h, InBucket(h, nb, S, c))
      BY <1>1 DEF InBucket, WholeBuckets, nb
  <2>4. \A y \in InBucket(h, nb, S, c) : h2[y].hh_next = h[y].hh_next /\ h2[y].hh_prev = h[y].hh_prev
      BY <1>6, <2>2
  <2>5. QED
      BY <2>1, <2>3, <2>4, BucketKept
<1>13. QED
    BY <1>1, <1>4, <1>7, <1>11, <1>12 DEF WholeBuckets, t2, h2, nb

-----------------------------------------------------------------------------
(* Delete, of an element that is not alone *)

Uncounted(t, h, e) ==
    LET b == HASH_TO_BKT(h[e].hashv, t.num_buckets)
    IN  [t EXCEPT !.tail = IF @ = e THEN h[e].prev ELSE @,
                  !.num_items = @ - 1,
                  !.buckets[b].count = @ - 1,
                  !.buckets[b].hh_head = IF @ = e THEN h[e].hh_next ELSE @]

Patched(h, e) ==
    [x \in Elements |-> [h[x] EXCEPT
        !.next    = IF x = h[e].prev THEN h[e].next ELSE @,
        !.prev    = IF x = h[e].next THEN h[e].prev ELSE @,
        !.hh_next = IF x = h[e].hh_prev THEN h[e].hh_next ELSE @,
        !.hh_prev = IF x = h[e].hh_next THEN h[e].hh_prev ELSE @]]

LEMMA UncountedFields ==
    ASSUME NEW t, IsTable(t), NEW h \in [Elements -> UT_hash_handle], NEW e \in Elements,
           t.num_buckets # 0, t.num_items # 0, NEW b, b = HASH_TO_BKT(h[e].hashv, t.num_buckets),
           t.buckets[b].count # 0
    PROVE  /\ IsTable(Uncounted(t, h, e))
           /\ Uncounted(t, h, e).num_buckets = t.num_buckets
           /\ Uncounted(t, h, e).num_items = t.num_items - 1
           /\ Uncounted(t, h, e).tail = IF t.tail = e THEN h[e].prev ELSE t.tail
           /\ Uncounted(t, h, e).noexpand = t.noexpand
           /\ Uncounted(t, h, e).ineff_expands = t.ineff_expands
           /\ Uncounted(t, h, e).buckets[b] =
                [hh_head |-> IF t.buckets[b].hh_head = e THEN h[e].hh_next ELSE t.buckets[b].hh_head,
                 count |-> t.buckets[b].count - 1, expand_mult |-> t.buckets[b].expand_mult]
           /\ \A c \in 0 .. t.num_buckets - 1 : c # b => Uncounted(t, h, e).buckets[c] = t.buckets[c]
<1> DEFINE t2 == Uncounted(t, h, e)
           hd == IF t.buckets[b].hh_head = e THEN h[e].hh_next ELSE t.buckets[b].hh_head
           new == [hh_head |-> hd, count |-> t.buckets[b].count - 1,
                   expand_mult |-> t.buckets[b].expand_mult]
           tl == IF t.tail = e THEN h[e].prev ELSE t.tail
<1>1. /\ t.num_buckets \in Nat /\ t.num_items \in Nat /\ h[e].hashv \in Nat
      /\ h[e].hh_next \in Pointers /\ h[e].prev \in Pointers /\ t.tail \in Pointers
    BY DEF IsTable, UT_hash_handle
<1>2. b \in 0 .. t.num_buckets - 1
    BY <1>1, BucketExists
<1>3. /\ t.buckets \in [0 .. t.num_buckets - 1 -> UT_hash_bucket] /\ t.buckets[b] \in UT_hash_bucket
      /\ t.buckets[b].count \in Nat /\ t.buckets[b].hh_head \in Pointers
    BY <1>2 DEF IsTable, UT_hash_bucket
<1>4. new \in UT_hash_bucket /\ tl \in Pointers /\ t.num_items - 1 \in Nat
  <2>1. t.buckets[b].count - 1 \in Nat /\ t.num_items - 1 \in Nat
      BY <1>1, <1>3
  <2>2. hd \in Pointers /\ tl \in Pointers
      BY <1>1, <1>3
  <2> HIDE DEF hd, tl
  <2>3. QED
      BY <1>3, <2>1, <2>2 DEF UT_hash_bucket
<1> HIDE DEF tl
<1>5. t2 = [t EXCEPT !.tail = tl, !.num_items = t.num_items - 1,
                     !.buckets = [t.buckets EXCEPT ![b] = new]]
  <2>1. t2 = [t EXCEPT !.tail = tl, !.num_items = t.num_items - 1,
                       !.buckets[b].count = @ - 1,
                       !.buckets[b].hh_head = IF @ = e THEN h[e].hh_next ELSE @]
      BY DEF Uncounted, tl
  <2>2. PICK k : k = t.buckets[b]
      OBVIOUS
  <2>3. PICK k2 : k2 = [k EXCEPT !.count = k.count - 1]
      OBVIOUS
  <2>4. k2 = [hh_head |-> k.hh_head, count |-> k.count - 1, expand_mult |-> k.expand_mult]
      BY <1>3, <2>2, <2>3 DEF UT_hash_bucket
  <2>5. [k2 EXCEPT !.hh_head = hd] = new
      BY <2>2, <2>4
  <2>6. PICK t3 : t3 = [t EXCEPT !.tail = tl, !.num_items = t.num_items - 1]
      OBVIOUS
  <2>7. t3.buckets = t.buckets /\ t3 \in [tail : Pointers, num_buckets : Nat, num_items : Nat, ineff_expands : Nat,
           noexpand : {0, 1}, buckets : [0 .. t.num_buckets - 1 -> UT_hash_bucket]]
      BY <1>4, <2>6 DEF IsTable
  <2>8. t2 = [t3 EXCEPT !.buckets[b].count = @ - 1,
                        !.buckets[b].hh_head = IF @ = e THEN h[e].hh_next ELSE @]
      BY <2>1, <2>6
  <2>9. PICK B1 : B1 = [t.buckets EXCEPT ![b] = k2]
      OBVIOUS
  <2>10. B1[b] = k2 /\ [B1 EXCEPT ![b] = new] = [t.buckets EXCEPT ![b] = new]
      BY <1>2, <1>3, <2>9
  <2>11. PICK t4 : t4 = [t3 EXCEPT !.buckets[b].count = @ - 1]
      OBVIOUS
  <2>12. t4 = [t3 EXCEPT !.buckets = B1]
      BY <2>2, <2>3, <2>7, <2>9, <2>11
  <2>13. t2 = [t4 EXCEPT !.buckets[b].hh_head =
                   IF t3.buckets[b].hh_head = e THEN h[e].hh_next ELSE t3.buckets[b].hh_head]
      BY <2>8, <2>11
  <2>14. t4.buckets = B1
      BY <2>7, <2>12
  <2>15. t2 = [t4 EXCEPT !.buckets = [B1 EXCEPT ![b] = new]]
      BY <2>5, <2>7, <2>10, <2>13, <2>14
  <2>16. QED
      BY <2>6, <2>7, <2>10, <2>12, <2>15
<1> HIDE DEF t2, new
<1>6. /\ t2.num_buckets = t.num_buckets /\ t2.num_items = t.num_items - 1 /\ t2.tail = tl
      /\ t2.noexpand = t.noexpand /\ t2.ineff_expands = t.ineff_expands
      /\ t2.buckets = [t.buckets EXCEPT ![b] = new]
      /\ t2 = [tail |-> tl, num_buckets |-> t.num_buckets, num_items |-> t.num_items - 1,
               ineff_expands |-> t.ineff_expands, noexpand |-> t.noexpand,
               buckets |-> [t.buckets EXCEPT ![b] = new]]
    BY <1>5 DEF IsTable
<1>7. [t.buckets EXCEPT ![b] = new] \in [0 .. t.num_buckets - 1 -> UT_hash_bucket]
    BY <1>3, <1>4
<1>8. IsTable(t2)
    BY <1>4, <1>6, <1>7 DEF IsTable
<1>9. QED
    BY <1>2, <1>3, <1>6, <1>8 DEF t2, new, tl

LEMMA PatchedFields ==
    ASSUME NEW h \in [Elements -> UT_hash_handle], NEW e \in Elements
    PROVE  /\ Patched(h, e) \in [Elements -> UT_hash_handle]
           /\ \A x \in Elements :
                /\ Patched(h, e)[x].hashv = h[x].hashv
                /\ Patched(h, e)[x].next = IF x = h[e].prev THEN h[e].next ELSE h[x].next
                /\ Patched(h, e)[x].prev = IF x = h[e].next THEN h[e].prev ELSE h[x].prev
                /\ Patched(h, e)[x].hh_next = IF x = h[e].hh_prev THEN h[e].hh_next ELSE h[x].hh_next
                /\ Patched(h, e)[x].hh_prev = IF x = h[e].hh_next THEN h[e].hh_prev ELSE h[x].hh_prev
<1> DEFINE h2 == Patched(h, e)
<1>1. h[e].next \in Pointers /\ h[e].prev \in Pointers /\ h[e].hh_next \in Pointers /\ h[e].hh_prev \in Pointers
    BY DEF UT_hash_handle
<1>2. ASSUME NEW x \in Elements
      PROVE  /\ h2[x] \in UT_hash_handle
             /\ h2[x].hashv = h[x].hashv
             /\ h2[x].next = IF x = h[e].prev THEN h[e].next ELSE h[x].next
             /\ h2[x].prev = IF x = h[e].next THEN h[e].prev ELSE h[x].prev
             /\ h2[x].hh_next = IF x = h[e].hh_prev THEN h[e].hh_next ELSE h[x].hh_next
             /\ h2[x].hh_prev = IF x = h[e].hh_next THEN h[e].hh_prev ELSE h[x].hh_prev
  <2>1. PICK d : d = h[x]
      OBVIOUS
  <2>2. /\ d \in UT_hash_handle
        /\ d.next \in Pointers /\ d.prev \in Pointers /\ d.hh_next \in Pointers /\ d.hh_prev \in Pointers
      BY <2>1 DEF UT_hash_handle
  <2>3. PICK a1, a2, a3, a4 :
           /\ a1 = IF x = h[e].prev THEN h[e].next ELSE d.next
           /\ a2 = IF x = h[e].next THEN h[e].prev ELSE d.prev
           /\ a3 = IF x = h[e].hh_prev THEN h[e].hh_next ELSE d.hh_next
           /\ a4 = IF x = h[e].hh_next THEN h[e].hh_prev ELSE d.hh_prev
      OBVIOUS
  <2>4. h2[x] = [d EXCEPT !.next = a1, !.prev = a2, !.hh_next = a3, !.hh_prev = a4]
    <3>1. h2[x] = [d EXCEPT
             !.next    = IF x = h[e].prev THEN h[e].next ELSE @,
             !.prev    = IF x = h[e].next THEN h[e].prev ELSE @,
             !.hh_next = IF x = h[e].hh_prev THEN h[e].hh_next ELSE @,
             !.hh_prev = IF x = h[e].hh_next THEN h[e].hh_prev ELSE @]
        BY <2>1 DEF Patched
    <3>2. QED
        BY <2>2, <2>3, <3>1 DEF UT_hash_handle
  <2>5. a1 \in Pointers /\ a2 \in Pointers /\ a3 \in Pointers /\ a4 \in Pointers
      BY <1>1, <2>2, <2>3
  <2> HIDE DEF h2
  <2>6. /\ h2[x] \in UT_hash_handle /\ h2[x].hashv = d.hashv
        /\ h2[x].next = a1 /\ h2[x].prev = a2 /\ h2[x].hh_next = a3 /\ h2[x].hh_prev = a4
      BY <2>2, <2>4, <2>5 DEF UT_hash_handle
  <2>7. QED
      BY <2>1, <2>3, <2>6
<1>3. h2 = [x \in Elements |-> h2[x]]
    BY DEF Patched
<1> HIDE DEF h2
<1>4. h2 \in [Elements -> UT_hash_handle]
    BY <1>2, <1>3
<1>5. QED
    BY <1>2, <1>4 DEF h2

LEMMA BucketRemoved ==
    ASSUME NEW t, NEW h, NEW S, WholeBuckets(t, h, S), NEW e \in S, t.num_items # 0
    PROVE  WholeBuckets(Uncounted(t, h, e), Patched(h, e), S \ {e})
<1> DEFINE t2 == Uncounted(t, h, e)
           h2 == Patched(h, e)
           nb == t.num_buckets
           b == HASH_TO_BKT(h[e].hashv, nb)
           first == t.buckets[b].hh_head
           next == h[e].hh_next
           prev == h[e].hh_prev
<1>1. /\ IsTable(t) /\ nb \in Nat /\ nb # 0 /\ S \subseteq Elements /\ e \in Elements
      /\ h \in [Elements -> UT_hash_handle] /\ e \in S
    BY DEF WholeBuckets, IsTable
<1>2. \A x \in Elements : h[x].hashv \in Nat /\ h[x] \in UT_hash_handle
    BY <1>1 DEF UT_hash_handle
<1>3. b \in 0 .. nb - 1
    BY <1>1, <1>2, BucketExists
<1>4. PICK s : /\ Chained(s, first, HhNexts(h), HhPrevs(h))
               /\ Members(s) = InBucket(h, nb, S, b) /\ t.buckets[b].count = Len(s)
    BY <1>3 DEF WholeBuckets, WholeBucket
<1>5. e \in Members(s)
    BY <1>1, <1>4 DEF InBucket
<1>6. PICK i \in 1 .. Len(s) : s[i] = e
    BY <1>4, <1>5 DEF Members, Chained
<1>7. Len(s) \in Nat /\ Len(s) # 0
    BY <1>4, <1>6 DEF Chained
<1>8. /\ IsTable(t2) /\ t2.num_buckets = nb
      /\ t2.buckets[b].hh_head = (IF first = e THEN next ELSE first)
      /\ t2.buckets[b].count = Len(s) - 1
      /\ \A c \in 0 .. nb - 1 : c # b => t2.buckets[c] = t.buckets[c]
  <2>1. /\ IsTable(t2) /\ t2.num_buckets = nb
        /\ t2.buckets[b] = [hh_head |-> IF first = e THEN next ELSE first,
                            count |-> t.buckets[b].count - 1,
                            expand_mult |-> t.buckets[b].expand_mult]
        /\ \A c \in 0 .. nb - 1 : c # b => t2.buckets[c] = t.buckets[c]
      BY <1>1, <1>4, <1>7, UncountedFields
  <2> HIDE DEF t2, first, next, b, nb
  <2>2. QED
      BY <1>4, <2>1
<1>9. /\ h2 \in [Elements -> UT_hash_handle]
      /\ \A x \in Elements : /\ h2[x].hashv = h[x].hashv
                             /\ h2[x].hh_next = IF x = prev THEN next ELSE h[x].hh_next
                             /\ h2[x].hh_prev = IF x = next THEN prev ELSE h[x].hh_prev
    BY <1>1, PatchedFields
<1>10. /\ HhNexts(h)[e] = next /\ HhPrevs(h)[e] = prev
       /\ \A x \in Elements : /\ HhNexts(h2)[x] = IF x = prev THEN next ELSE HhNexts(h)[x]
                              /\ HhPrevs(h2)[x] = IF x = next THEN prev ELSE HhPrevs(h)[x]
    BY <1>1, <1>9, HandleLinks
<1>11. (next \in Members(s) \/ next = NULL) /\ (prev \in Members(s) \/ prev = NULL)
  <2>1. HhNexts(h)[s[i]] = Link(s, i) /\ HhPrevs(h)[s[i]] = BackLink(s, i)
      BY <1>4 DEF Chained
  <2>2. Link(s, i) = NULL \/ i + 1 \in DOMAIN s
      BY <1>4, <1>7 DEF Link, Chained
  <2>3. BackLink(s, i) = NULL \/ i - 1 \in DOMAIN s
      BY <1>4, <1>7 DEF BackLink, Chained
  <2>4. QED
      BY <1>6, <1>10, <2>1, <2>2, <2>3 DEF Members, Link, BackLink
<1> HIDE DEF t2, h2, nb, b, first, next, prev
<1>12. /\ InBucket(h2, nb, S \ {e}, b) = InBucket(h, nb, S, b) \ {e}
       /\ \A c \in 0 .. nb - 1 : c # b => InBucket(h2, nb, S \ {e}, c) = InBucket(h, nb, S, c)
    BY <1>1, <1>9 DEF InBucket, b
<1>13. \A y \in Members(s) : y \in Elements /\ y # NULL /\ HASH_TO_BKT(h[y].hashv, nb) = b
    BY <1>1, <1>4, UthashAssumption DEF InBucket
<1>14. WholeBucket(t2.buckets[b], h2, InBucket(h2, nb, S \ {e}, b))
  <2>1. \A y \in Members(s) :
           /\ HhNexts(h2)[y] = IF y = HhPrevs(h)[s[i]] THEN HhNexts(h)[s[i]] ELSE HhNexts(h)[y]
           /\ HhPrevs(h2)[y] = IF y = HhNexts(h)[s[i]] THEN HhPrevs(h)[s[i]] ELSE HhPrevs(h)[y]
      BY <1>6, <1>10, <1>13
  <2>2. Chained(Without(s, i), IF first = s[i] THEN HhNexts(h)[s[i]] ELSE first, HhNexts(h2), HhPrevs(h2))
      BY <1>4, <2>1, Removed
  <2>3. s \in Seq(Elements) /\ Once(s)
      BY <1>4 DEF Chained
  <2>4. Len(Without(s, i)) = Len(s) - 1 /\ Members(Without(s, i)) = Members(s) \ {s[i]}
      BY <2>3, WithoutOne
  <2>5. Chained(Without(s, i), t2.buckets[b].hh_head, HhNexts(h2), HhPrevs(h2))
      BY <1>6, <1>8, <1>10, <2>2
  <2>6. /\ Members(Without(s, i)) = InBucket(h2, nb, S \ {e}, b)
        /\ t2.buckets[b].count = Len(Without(s, i))
      BY <1>4, <1>6, <1>8, <1>12, <2>4
  <2>7. QED
      BY <2>5, <2>6 DEF WholeBucket
<1>15. ASSUME NEW c \in 0 .. nb - 1, c # b
       PROVE  WholeBucket(t2.buckets[c], h2, InBucket(h2, nb, S \ {e}, c))
  <2>1. InBucket(h2, nb, S \ {e}, c) = InBucket(h, nb, S, c) /\ t2.buckets[c] = t.buckets[c]
      BY <1>8, <1>12, <1>15
  <2>2. \A y \in InBucket(h, nb, S, c) : y \in Elements /\ y # next /\ y # prev
      BY <1>1, <1>11, <1>13, <1>15, UthashAssumption DEF InBucket
  <2>3. InBucket(h, nb, S, c) \in SUBSET Elements /\ WholeBucket(t.buckets[c], h, InBucket(h, nb, S, c))
      BY <1>1 DEF InBucket, WholeBuckets, nb
  <2>4. \A y \in InBucket(h, nb, S, c) : h2[y].hh_next = h[y].hh_next /\ h2[y].hh_prev = h[y].hh_prev
      BY <1>9, <2>2
  <2>5. QED
      BY <2>1, <2>3, <2>4, BucketKept
<1>16. QED
    BY <1>1, <1>8, <1>9, <1>14, <1>15 DEF WholeBuckets, t2, h2, nb

-----------------------------------------------------------------------------
(* What a recursive definition says can be had: G[n] is the n-th step. *)

Steps(N, V) == [1 .. N -> [V -> V]]

Recurs(f, N, V, x, G) ==
    f \in [0 .. N -> V] /\ f[0] = x /\ \A n \in 1 .. N : f[n] = G[n][f[n - 1]]

LEMMA Recursion ==
    ASSUME NEW N \in Nat, NEW V, NEW x \in V, NEW G \in Steps(N, V)
    PROVE  \E f : Recurs(f, N, V, x, G)
<1> DEFINE S == {k \in Nat : k <= N =>
                    \E f \in [0 .. k -> V] : f[0] = x /\ \A n \in 1 .. k : f[n] = G[n][f[n - 1]]}
<1>1. 0 \in S
  <2>1. /\ [n \in 0 .. 0 |-> x] \in [0 .. 0 -> V] /\ [n \in 0 .. 0 |-> x][0] = x
        /\ \A n \in 1 .. 0 : FALSE
      OBVIOUS
  <2>2. QED
      BY <2>1
<1>2. ASSUME NEW k \in Nat, k \in S
      PROVE  k + 1 \in S
  <2>1. SUFFICES ASSUME k + 1 <= N
                 PROVE  \E f \in [0 .. k + 1 -> V] :
                           f[0] = x /\ \A n \in 1 .. k + 1 : f[n] = G[n][f[n - 1]]
      BY <1>2
  <2>2. PICK f \in [0 .. k -> V] : f[0] = x /\ \A n \in 1 .. k : f[n] = G[n][f[n - 1]]
      BY <1>2, <2>1
  <2> DEFINE g == [n \in 0 .. k + 1 |-> IF n = k + 1 THEN G[k + 1][f[k]] ELSE f[n]]
  <2>3. k + 1 \in 1 .. N /\ f[k] \in V
      BY <2>1
  <2>4. G[k + 1] \in [V -> V]
      BY <2>3 DEF Steps
  <2>5. G[k + 1][f[k]] \in V
      BY <2>3, <2>4
  <2>6. \A n \in 0 .. k + 1 : n = k + 1 \/ (n \in 0 .. k /\ n # k + 1)
      OBVIOUS
  <2>7. g \in [0 .. k + 1 -> V]
      BY <2>5, <2>6
  <2>8. 0 \in 0 .. k /\ 0 # k + 1 /\ 0 \in 0 .. k + 1 /\ k + 1 \in 0 .. k + 1
      OBVIOUS
  <2>9. g[0] = x /\ g[k + 1] = G[k + 1][f[k]] /\ \A n \in 0 .. k : g[n] = f[n]
      BY <2>2, <2>6, <2>8
  <2> HIDE DEF g
  <2>10. ASSUME NEW n \in 1 .. k + 1
         PROVE  g[n] = G[n][g[n - 1]]
    <3>1. n = k + 1 \/ (n \in 1 .. k /\ n \in 0 .. k)
        OBVIOUS
    <3>2. n - 1 \in 0 .. k /\ (n = k + 1 => n - 1 = k)
        OBVIOUS
    <3>3. QED
        BY <2>2, <2>9, <3>1, <3>2
  <2>11. QED
      BY <2>7, <2>9, <2>10
<1> HIDE DEF S
<1>3. N \in S
    BY <1>1, <1>2, SetInduction
<1>4. QED
    BY <1>3 DEF S, Recurs

LEMMA Joined ==
    ASSUME NEW s \in Seq(Elements), NEW t \in Seq(Elements), Once(s), Once(t),
           Members(s) \cap Members(t) = {}
    PROVE  /\ s \o t \in Seq(Elements) /\ Once(s \o t) /\ Len(s \o t) = Len(s) + Len(t)
           /\ Members(s \o t) = Members(s) \cup Members(t)
<1> DEFINE L == Len(s)
           M == Len(t)
           u == s \o t
<1>1. /\ L \in Nat /\ M \in Nat /\ u \in Seq(Elements) /\ Len(u) = L + M
      /\ DOMAIN s = 1 .. L /\ DOMAIN t = 1 .. M /\ DOMAIN u = 1 .. L + M
      /\ \A n \in 1 .. L + M : u[n] = IF n <= L THEN s[n] ELSE t[n - L]
    OBVIOUS
<1> HIDE DEF L, M, u
<1>2. ASSUME NEW n \in 1 .. L + M
      PROVE  \/ n \in 1 .. L /\ u[n] = s[n] /\ u[n] \in Members(s)
             \/ \E k \in 1 .. M : n = L + k /\ u[n] = t[k] /\ u[n] \in Members(t)
  <2>1. CASE n <= L
    <3>1. n \in 1 .. L
        BY <1>1, <2>1
    <3>2. QED
        BY <1>1, <2>1, <3>1 DEF Members
  <2>2. CASE ~(n <= L)
    <3>1. PICK k : k = n - L
        OBVIOUS
    <3>2. k \in 1 .. M /\ n = L + k
        BY <1>1, <2>2, <3>1
    <3>3. u[n] = t[k]
        BY <1>1, <2>2, <3>1
    <3>4. QED
        BY <1>1, <3>2, <3>3 DEF Members
  <2>3. QED
      BY <2>1, <2>2
<1>3. Members(u) = Members(s) \cup Members(t)
  <2>1. Members(u) \subseteq Members(s) \cup Members(t)
      BY <1>1, <1>2 DEF Members
  <2>2. ASSUME NEW n \in 1 .. L
        PROVE  n \in 1 .. L + M /\ u[n] = s[n]
      BY <1>1
  <2>3. ASSUME NEW n \in 1 .. M
        PROVE  L + n \in 1 .. L + M /\ u[L + n] = t[n]
    <3>1. L + n \in 1 .. L + M /\ ~(L + n <= L) /\ (L + n) - L = n
        BY <1>1
    <3>2. QED
        BY <1>1, <3>1
  <2>4. Members(s) \subseteq Members(u)
      BY <1>1, <2>2 DEF Members
  <2>5. Members(t) \subseteq Members(u)
    <3>1. SUFFICES ASSUME NEW y \in Members(t)
                   PROVE  y \in Members(u)
        OBVIOUS
    <3>2. PICK n \in 1 .. M : t[n] = y
        BY <1>1 DEF Members
    <3>3. L + n \in DOMAIN u /\ u[L + n] = y
        BY <1>1, <2>3, <3>2
    <3>4. QED
        BY <3>3 DEF Members
  <2>6. QED
      BY <2>1, <2>4, <2>5
<1>4. Once(u)
  <2>1. SUFFICES ASSUME NEW m \in 1 .. L + M, NEW n \in 1 .. L + M, u[m] = u[n]
                 PROVE  m = n
      BY <1>1 DEF Once
  <2>2. CASE u[m] \in Members(s)
    <3>1. u[m] \notin Members(t) /\ u[n] \notin Members(t)
        BY <2>1, <2>2
    <3>2. /\ m \in 1 .. L /\ n \in 1 .. L /\ s[m] = s[n]
        BY <1>2, <2>1, <3>1
    <3>3. QED
        BY <1>1, <3>2 DEF Once
  <2>3. CASE u[m] \notin Members(s)
    <3>1. PICK j \in 1 .. M : m = L + j /\ u[m] = t[j]
        BY <1>2, <2>3
    <3>2. PICK k \in 1 .. M : n = L + k /\ u[n] = t[k]
        BY <1>2, <2>1, <2>3
    <3>3. t[j] = t[k] /\ j \in DOMAIN t /\ k \in DOMAIN t
        BY <1>1, <2>1, <3>1, <3>2
    <3>4. j = k
        BY <3>3 DEF Once
    <3>5. QED
        BY <3>1, <3>2, <3>4
  <2>4. QED
      BY <2>2, <2>3
<1>5. QED
    BY <1>1, <1>3, <1>4 DEF L, M, u

LEMMA OneMember ==
    ASSUME NEW x \in Elements
    PROVE  <<x>> \in Seq(Elements) /\ Once(<<x>>) /\ Members(<<x>>) = {x} /\ Len(<<x>>) = 1
<1>1. <<x>> \in Seq(Elements) /\ DOMAIN <<x>> = {1} /\ <<x>>[1] = x /\ Len(<<x>>) = 1
    OBVIOUS
<1>2. Once(<<x>>) /\ Members(<<x>>) = {x}
    BY <1>1 DEF Once, Members
<1>3. QED
    BY <1>1, <1>2

LEMMA NoMember == << >> \in Seq(Elements) /\ Once(<< >>) /\ Members(<< >>) = {}
<1>1. << >> \in Seq(Elements) /\ DOMAIN << >> = {}
    OBVIOUS
<1>2. QED
    BY <1>1 DEF Once, Members

LEMMA PositionIs ==
    ASSUME NEW s, Once(s), NEW n \in DOMAIN s
    PROVE  Position(s, s[n]) = n
<1>1. \A k \in DOMAIN s : s[k] = s[n] => k = n
    BY DEF Once
<1>2. (CHOOSE k \in DOMAIN s : s[k] = s[n]) = n
    BY <1>1
<1>3. QED
    BY <1>2 DEF Position

-----------------------------------------------------------------------------
(* ExpandBuckets *)

LEMMA BucketChainIs ==
    ASSUME NEW t, NEW h, NEW S, WholeBuckets(t, h, S), NEW b \in 0 .. t.num_buckets - 1
    PROVE  /\ Chained(BucketChain(t, h, b), t.buckets[b].hh_head, HhNexts(h), HhPrevs(h))
           /\ Members(BucketChain(t, h, b)) = InBucket(h, t.num_buckets, S, b)
           /\ t.buckets[b].count = Len(BucketChain(t, h, b))
<1>1. PICK c : /\ Chained(c, t.buckets[b].hh_head, HhNexts(h), HhPrevs(h))
               /\ Members(c) = InBucket(h, t.num_buckets, S, b) /\ t.buckets[b].count = Len(c)
    BY DEF WholeBuckets, WholeBucket
<1>2. HhNexts(h)[NULL] = NULL
    BY DEF HhNexts, Pointers
<1>3. Chain(t.buckets[b].hh_head, HhNexts(h)) = c
    BY <1>1, <1>2, ChainIs
<1>4. QED
    BY <1>1, <1>3 DEF BucketChain

IsUpto(t, h, u) ==
    u = [b \in 0 .. t.num_buckets |-> IF b = 0 THEN << >> ELSE u[b-1] \o BucketChain(t, h, b - 1)]

Below(h, num_bkts, S, b) == {e \in S : HASH_TO_BKT(h[e].hashv, num_bkts) < b}

LEMMA BucketByBucketIs ==
    ASSUME NEW t, NEW h, NEW S, WholeBuckets(t, h, S)
    PROVE  /\ BucketByBucket(t, h) \in Seq(Elements) /\ Once(BucketByBucket(t, h))
           /\ Members(BucketByBucket(t, h)) = S
<1> DEFINE nb == t.num_buckets
           V == Seq(Elements)
           G == [n \in 1 .. nb |-> [s \in V |-> s \o BucketChain(t, h, n - 1)]]
<1>1. nb \in Nat /\ nb # 0 /\ S \subseteq Elements /\ \A x \in Elements : h[x].hashv \in Nat
    BY DEF WholeBuckets, IsTable, UT_hash_handle
<1>2. \A b \in 0 .. nb - 1 : /\ BucketChain(t, h, b) \in V /\ Once(BucketChain(t, h, b))
                             /\ Members(BucketChain(t, h, b)) = InBucket(h, nb, S, b)
    BY BucketChainIs DEF Chained
<1>3. PICK u \in [0 .. nb -> V] :
         u[0] = << >> /\ \A n \in 1 .. nb : u[n] = u[n - 1] \o BucketChain(t, h, n - 1)
  <2>1. G \in [1 .. nb -> [V -> V]]
    <3>1. ASSUME NEW n \in 1 .. nb
          PROVE  [s \in V |-> s \o BucketChain(t, h, n - 1)] \in [V -> V]
      <4>1. n - 1 \in 0 .. nb - 1
          BY <1>1
      <4>2. BucketChain(t, h, n - 1) \in V
          BY <1>2, <4>1
      <4>3. QED
          BY <4>2
    <3>2. QED
        BY <3>1
  <2>2. << >> \in V
      BY NoMember
  <2> HIDE DEF V
  <2>3. \A n \in 1 .. nb : \A s \in V : G[n][s] = s \o BucketChain(t, h, n - 1)
      OBVIOUS
  <2> HIDE DEF G, nb
  <2>4. PICK u : Recurs(u, nb, V, << >>, G)
    <3>1. nb \in Nat /\ G \in Steps(nb, V)
        BY <1>1, <2>1 DEF Steps, nb
    <3>2. QED
        BY <2>2, <3>1, Recursion
  <2>5. \A n \in 1 .. nb : n - 1 \in 0 .. nb
      BY <1>1
  <2>6. \A n \in 1 .. nb : u[n - 1] \in V
      BY <2>4, <2>5 DEF Recurs
  <2>7. \A n \in 1 .. nb : u[n] = u[n - 1] \o BucketChain(t, h, n - 1)
      BY <2>3, <2>4, <2>6 DEF Recurs
  <2>8. QED
      BY <2>4, <2>7 DEF Recurs, nb
<1>4. \E v : IsUpto(t, h, v)
  <2>1. u = [b \in 0 .. nb |-> IF b = 0 THEN << >> ELSE u[b-1] \o BucketChain(t, h, b - 1)]
    <3>1. \A b \in 0 .. nb : u[b] = IF b = 0 THEN << >> ELSE u[b-1] \o BucketChain(t, h, b - 1)
      <4>1. \A b \in 0 .. nb : b = 0 \/ (b # 0 /\ b \in 1 .. nb)
          BY <1>1
      <4>2. QED
          BY <1>3, <4>1
    <3>2. u = [b \in 0 .. nb |-> u[b]]
        OBVIOUS
    <3>3. QED
        BY <3>1, <3>2
  <2>2. QED
      BY <2>1 DEF IsUpto
<1>5. PICK v : IsUpto(t, h, v) /\ BucketByBucket(t, h) = v[nb]
    BY <1>4 DEF BucketByBucket, IsUpto
<1>6. v[0] = << >> /\ \A n \in Nat : n + 1 \in 0 .. nb => v[n + 1] = v[n] \o BucketChain(t, h, n)
  <2>1. v = [b \in 0 .. nb |-> IF b = 0 THEN << >> ELSE v[b-1] \o BucketChain(t, h, b - 1)]
      BY <1>5 DEF IsUpto
  <2>2. v[0] = << >>
      BY <1>1, <2>1
  <2>3. ASSUME NEW n \in Nat, n + 1 \in 0 .. nb
        PROVE  v[n + 1] = v[n] \o BucketChain(t, h, n)
    <3>1. (n + 1) - 1 = n /\ n + 1 # 0
        OBVIOUS
    <3>2. v[n + 1] = IF n + 1 = 0 THEN << >> ELSE v[(n + 1) - 1] \o BucketChain(t, h, (n + 1) - 1)
        BY <2>1, <2>3
    <3>3. QED
        BY <3>1, <3>2
  <2>4. QED
      BY <2>2, <2>3
<1> DEFINE T == {n \in Nat : n <= nb =>
                    v[n] \in V /\ Once(v[n]) /\ Members(v[n]) = Below(h, nb, S, n)}
<1>7. 0 \in T
  <2>1. Below(h, nb, S, 0) = {}
    <3>1. \A e \in S : HASH_TO_BKT(h[e].hashv, nb) \in 0 .. nb - 1
        BY <1>1, BucketExists
    <3>2. QED
        BY <3>1 DEF Below
  <2>2. QED
      BY <1>6, <2>1, NoMember
<1>8. ASSUME NEW n \in Nat, n \in T
      PROVE  n + 1 \in T
  <2>1. SUFFICES ASSUME n + 1 <= nb
                 PROVE  /\ v[n + 1] \in V /\ Once(v[n + 1])
                        /\ Members(v[n + 1]) = Below(h, nb, S, n + 1)
      OBVIOUS
  <2>2. n \in 0 .. nb - 1 /\ n <= nb /\ n + 1 \in 0 .. nb
      BY <1>1, <2>1
  <2>3. v[n] \in V /\ Once(v[n]) /\ Members(v[n]) = Below(h, nb, S, n)
      BY <1>8, <2>2
  <2>4. /\ BucketChain(t, h, n) \in V /\ Once(BucketChain(t, h, n))
        /\ Members(BucketChain(t, h, n)) = InBucket(h, nb, S, n)
      BY <1>2, <2>2
  <2>5. /\ Below(h, nb, S, n) \cap InBucket(h, nb, S, n) = {}
        /\ Below(h, nb, S, n) \cup InBucket(h, nb, S, n) = Below(h, nb, S, n + 1)
    <3>1. \A e \in S : HASH_TO_BKT(h[e].hashv, nb) \in 0 .. nb - 1
        BY <1>1, BucketExists
    <3>2. \A e \in S : /\ HASH_TO_BKT(h[e].hashv, nb) < n => HASH_TO_BKT(h[e].hashv, nb) # n
                       /\ HASH_TO_BKT(h[e].hashv, nb) < n + 1 <=>
                             HASH_TO_BKT(h[e].hashv, nb) < n \/ HASH_TO_BKT(h[e].hashv, nb) = n
      <4>1. \A k \in 0 .. nb - 1 : (k < n => k # n) /\ (k < n + 1 <=> (k < n \/ k = n))
          OBVIOUS
      <4>2. QED
          BY <3>1, <4>1
    <3>3. QED
        BY <3>2 DEF Below, InBucket
  <2>6. v[n + 1] = v[n] \o BucketChain(t, h, n)
      BY <1>6, <2>2
  <2>7. QED
      BY <2>3, <2>4, <2>5, <2>6, Joined
<1> HIDE DEF T
<1>9. nb \in T
    BY <1>1, <1>7, <1>8, SetInduction
<1>10. Below(h, nb, S, nb) = S
  <2>1. \A e \in S : HASH_TO_BKT(h[e].hashv, nb) \in 0 .. nb - 1
      BY <1>1, BucketExists
  <2>2. \A e \in S : HASH_TO_BKT(h[e].hashv, nb) < nb
      BY <1>1, <2>1
  <2>3. QED
      BY <2>2 DEF Below
<1>11. QED
    BY <1>1, <1>5, <1>9, <1>10 DEF T

Taken(s, n) == {s[k] : k \in 1 .. n}

Placed(h, nb, f, x) ==      \* x at the head of its bucket
    [f EXCEPT ![HASH_TO_BKT(h[x].hashv, nb)] = <<x>> \o @]

Chains(nb) == [0 .. nb - 1 -> Seq(Elements)]

LEMMA PlacedIs ==
    ASSUME NEW nb \in Nat, nb # 0, NEW h, NEW f \in Chains(nb), NEW x \in Elements, h[x].hashv \in Nat
    PROVE  /\ Placed(h, nb, f, x) \in Chains(nb)
           /\ \A b \in 0 .. nb - 1 :
                 Placed(h, nb, f, x)[b] = IF b = HASH_TO_BKT(h[x].hashv, nb) THEN <<x>> \o f[b] ELSE f[b]
<1>1. PICK c \in 0 .. nb - 1 : c = HASH_TO_BKT(h[x].hashv, nb)
    BY BucketExists
<1>2. \A b \in 0 .. nb - 1 : f[b] \in Seq(Elements)
    BY DEF Chains
<1>3. <<x>> \o f[c] \in Seq(Elements)
  <2>1. <<x>> \in Seq(Elements) /\ f[c] \in Seq(Elements)
      BY <1>1, <1>2
  <2>2. QED
      BY <2>1
<1>4. PICK s \in Seq(Elements) : s = <<x>> \o f[c]
    BY <1>3
<1>5. Placed(h, nb, f, x) = [f EXCEPT ![c] = s]
    BY <1>1, <1>4 DEF Placed
<1>6. QED
    BY <1>1, <1>2, <1>4, <1>5 DEF Chains

IsSpread(h, order, nb, v) ==
    v = [n \in 0 .. Len(order) |->
            IF n = 0 THEN [b \in 0 .. nb - 1 |-> << >>] ELSE Placed(h, nb, v[n-1], order[n])]

LEMMA SpreadIs ==
    ASSUME NEW h \in [Elements -> UT_hash_handle], NEW order \in Seq(Elements), Once(order),
           NEW nb \in Nat, nb # 0
    PROVE  /\ Spread(h, order, nb) \in Chains(nb)
           /\ \A b \in 0 .. nb - 1 :
                /\ Once(Spread(h, order, nb)[b])
                /\ Members(Spread(h, order, nb)[b]) = InBucket(h, nb, Members(order), b)
<1> DEFINE L == Len(order)
           V == Chains(nb)
           empty == [b \in 0 .. nb - 1 |-> << >>]
           G == [n \in 1 .. L |-> [f \in V |-> Placed(h, nb, f, order[n])]]
<1>1. L \in Nat /\ \A n \in 1 .. L : order[n] \in Elements /\ h[order[n]].hashv \in Nat
    BY DEF UT_hash_handle
<1>2. empty \in V
    BY NoMember DEF Chains
<1>3. PICK u : Recurs(u, L, V, empty, G)
  <2>1. G \in [1 .. L -> [V -> V]]
    <3>1. ASSUME NEW n \in 1 .. L
          PROVE  [f \in V |-> Placed(h, nb, f, order[n])] \in [V -> V]
        BY <1>1, PlacedIs
    <3>2. QED
        BY <3>1
  <2> HIDE DEF G, V, L, empty
  <2>2. G \in Steps(L, V)
      BY <2>1 DEF Steps
  <2>3. QED
      BY <1>1, <1>2, <2>2, Recursion
<1>4. \E v : IsSpread(h, order, nb, v)
  <2>1. \A n \in 1 .. L : \A f \in V : G[n][f] = Placed(h, nb, f, order[n])
      OBVIOUS
  <2> HIDE DEF G, V, empty
  <2>2. u[0] = empty /\ u \in [0 .. L -> V] /\ \A n \in 1 .. L : u[n] = G[n][u[n - 1]]
      BY <1>3 DEF Recurs
  <2>3. \A n \in 1 .. L : n - 1 \in 0 .. L
      BY <1>1
  <2>4. \A n \in 1 .. L : u[n] = Placed(h, nb, u[n - 1], order[n])
      BY <2>1, <2>2, <2>3
  <2>5. \A n \in 0 .. L : n = 0 \/ (n # 0 /\ n \in 1 .. L)
      BY <1>1
  <2>6. \A n \in 0 .. L : u[n] = IF n = 0 THEN empty ELSE Placed(h, nb, u[n-1], order[n])
      BY <2>2, <2>4, <2>5
  <2>7. u = [n \in 0 .. L |-> u[n]]
      BY <2>2
  <2>8. u = [n \in 0 .. L |-> IF n = 0 THEN empty ELSE Placed(h, nb, u[n-1], order[n])]
      BY <2>6, <2>7
  <2>9. QED
      BY <2>8 DEF IsSpread, empty
<1>5. PICK v : IsSpread(h, order, nb, v) /\ Spread(h, order, nb) = v[L]
    BY <1>4 DEF Spread, IsSpread, Placed
<1>6. v[0] = empty /\ \A n \in Nat : n + 1 \in 0 .. L => v[n + 1] = Placed(h, nb, v[n], order[n + 1])
  <2>1. v = [n \in 0 .. L |-> IF n = 0 THEN empty ELSE Placed(h, nb, v[n-1], order[n])]
      BY <1>5 DEF IsSpread
  <2> HIDE DEF empty
  <2>2. v[0] = empty
      BY <1>1, <2>1
  <2>3. ASSUME NEW n \in Nat, n + 1 \in 0 .. L
        PROVE  v[n + 1] = Placed(h, nb, v[n], order[n + 1])
    <3>1. (n + 1) - 1 = n /\ n + 1 # 0
        OBVIOUS
    <3>2. v[n + 1] = IF n + 1 = 0 THEN empty ELSE Placed(h, nb, v[(n + 1) - 1], order[n + 1])
        BY <2>1, <2>3
    <3>3. QED
        BY <3>1, <3>2
  <2>4. QED
      BY <2>2, <2>3
<1> DEFINE T == {n \in Nat : n <= L =>
                    /\ v[n] \in V
                    /\ \A b \in 0 .. nb - 1 :
                          Once(v[n][b]) /\ Members(v[n][b]) = InBucket(h, nb, Taken(order, n), b)}
<1>7. 0 \in T
  <2>1. \A b \in 0 .. nb - 1 : InBucket(h, nb, Taken(order, 0), b) = {}
      BY DEF Taken, InBucket
  <2>2. QED
      BY <1>2, <1>6, <2>1, NoMember
<1>8. ASSUME NEW n \in Nat, n \in T
      PROVE  n + 1 \in T
  <2>1. SUFFICES ASSUME n + 1 <= L
                 PROVE  /\ v[n + 1] \in V
                        /\ \A b \in 0 .. nb - 1 :
                             /\ Once(v[n + 1][b])
                             /\ Members(v[n + 1][b]) = InBucket(h, nb, Taken(order, n + 1), b)
      OBVIOUS
  <2>2. n + 1 \in 1 .. L /\ n <= L /\ n + 1 \in 0 .. L
      BY <1>1, <2>1
  <2>3. /\ v[n] \in V
        /\ \A b \in 0 .. nb - 1 :
              Once(v[n][b]) /\ Members(v[n][b]) = InBucket(h, nb, Taken(order, n), b)
      BY <1>8, <2>2
  <2> HIDE DEF T, V
  <2>4. PICK x \in Elements : x = order[n + 1] /\ h[x].hashv \in Nat
      BY <1>1, <2>2
  <2>5. v[n + 1] = Placed(h, nb, v[n], x)
      BY <1>6, <2>2, <2>4
  <2>6. /\ v[n + 1] \in V
        /\ \A b \in 0 .. nb - 1 :
              v[n + 1][b] = IF b = HASH_TO_BKT(h[x].hashv, nb) THEN <<x>> \o v[n][b] ELSE v[n][b]
      BY <2>3, <2>4, <2>5, PlacedIs DEF V
  <2>7. Taken(order, n + 1) = Taken(order, n) \cup {x}
    <3>1. \A k : k \in 1 .. n + 1 <=> (k \in 1 .. n \/ k = n + 1)
        BY <2>2
    <3>2. QED
        BY <2>4, <3>1 DEF Taken
  <2>8. x \notin Taken(order, n)
    <3>1. SUFFICES ASSUME NEW k \in 1 .. n, order[k] = x
                   PROVE  FALSE
        BY DEF Taken
    <3>2. k \in DOMAIN order /\ n + 1 \in DOMAIN order /\ k # n + 1
        BY <2>2
    <3>3. QED
        BY <2>4, <3>1, <3>2 DEF Once
  <2>9. ASSUME NEW b \in 0 .. nb - 1
        PROVE  Once(v[n + 1][b]) /\ Members(v[n + 1][b]) = InBucket(h, nb, Taken(order, n + 1), b)
    <3>1. PICK s \in Seq(Elements) : s = v[n][b]
        BY <2>3 DEF V, Chains
    <3>2. Once(s) /\ Members(s) = InBucket(h, nb, Taken(order, n), b)
        BY <2>3, <3>1
    <3>3. CASE b = HASH_TO_BKT(h[x].hashv, nb)
      <4>1. v[n + 1][b] = <<x>> \o s
          BY <2>6, <3>1, <3>3
      <4>2. Members(<<x>>) \cap Members(s) = {}
          BY <2>8, <3>2, OneMember DEF InBucket
      <4>3. Once(<<x>> \o s) /\ Members(<<x>> \o s) = Members(s) \cup {x}
        <5>1. PICK p \in Seq(Elements) : p = <<x>> /\ Once(p) /\ Members(p) = {x}
            BY OneMember
        <5>2. Once(p \o s) /\ Members(p \o s) = Members(p) \cup Members(s)
            BY <3>2, <4>2, <5>1, Joined
        <5>3. QED
            BY <5>1, <5>2
      <4>4. InBucket(h, nb, Taken(order, n + 1), b) = InBucket(h, nb, Taken(order, n), b) \cup {x}
          BY <2>7, <3>3 DEF InBucket
      <4>5. QED
          BY <3>2, <4>1, <4>3, <4>4
    <3>4. CASE b # HASH_TO_BKT(h[x].hashv, nb)
      <4>1. v[n + 1][b] = s
          BY <2>6, <3>1, <3>4
      <4>2. InBucket(h, nb, Taken(order, n + 1), b) = InBucket(h, nb, Taken(order, n), b)
          BY <2>7, <3>4 DEF InBucket
      <4>3. QED
          BY <3>2, <4>1, <4>2
    <3>5. QED
        BY <3>3, <3>4
  <2>10. QED
      BY <2>6, <2>9
<1> HIDE DEF T
<1>9. L \in T
    BY <1>1, <1>7, <1>8, SetInduction
<1>10. Taken(order, L) = Members(order)
    BY DEF Taken, Members
<1>11. QED
    BY <1>1, <1>5, <1>9, <1>10 DEF T

LEMMA Relinked ==
    ASSUME NEW s \in Seq(Elements), Once(s), NEW link, NEW back,
           \A e \in Members(s) : /\ link[e] = Link(s, Position(s, e))
                                 /\ back[e] = BackLink(s, Position(s, e))
    PROVE  Chained(s, First(s), link, back)
<1>1. ASSUME NEW n \in 1 .. Len(s)
      PROVE  link[s[n]] = Link(s, n) /\ back[s[n]] = BackLink(s, n)
  <2>1. n \in DOMAIN s /\ s[n] \in Members(s)
      BY DEF Members
  <2>2. Position(s, s[n]) = n
      BY <2>1, PositionIs
  <2>3. QED
      BY <2>1, <2>2
<1>2. QED
    BY <1>1 DEF Chained

LEMMA PositionOf ==
    ASSUME NEW s \in Seq(Elements), Once(s), NEW e \in Members(s)
    PROVE  /\ Position(s, e) \in 1 .. Len(s) /\ s[Position(s, e)] = e
           /\ Link(s, Position(s, e)) \in Pointers /\ BackLink(s, Position(s, e)) \in Pointers
<1>1. PICK n \in 1 .. Len(s) : s[n] = e
    BY DEF Members
<1>2. Position(s, e) = n
    BY <1>1, PositionIs
<1>3. Len(s) \in Nat /\ \A k \in 1 .. Len(s) : s[k] \in Elements
    OBVIOUS
<1>4. (n # Len(s) => n + 1 \in 1 .. Len(s)) /\ (n # 1 => n - 1 \in 1 .. Len(s))
    BY <1>3
<1>5. QED
    BY <1>1, <1>2, <1>3, <1>4 DEF Link, BackLink, Pointers

-----------------------------------------------------------------------------

IdealChain(items, num_bkts) ==
    items \div num_bkts + (IF items % num_bkts = 0 THEN 0 ELSE 1)

NewBuckets(new, nb, ideal) ==
    [b \in 0 .. nb - 1 |->
        [hh_head |-> IF new[b] = << >> THEN NULL ELSE new[b][1],
         count |-> Len(new[b]),
         expand_mult |-> ExpandMult(Len(new[b]), ideal)]]

Relinking(h, S, new, nb) ==
    [e \in Elements |->
        IF e \notin S THEN h[e]
        ELSE LET chain == new[HASH_TO_BKT(h[e].hashv, nb)]
                 n == Position(chain, e)
             IN  [h[e] EXCEPT !.hh_prev = IF n = 1 THEN NULL ELSE chain[n-1],
                              !.hh_next = IF n = Len(chain) THEN NULL ELSE chain[n+1]]]

Expanded(t, nb, bkts, ineff) ==
    [t EXCEPT !.num_buckets = nb, !.buckets = bkts, !.ineff_expands = ineff,
              !.noexpand = IF ineff > 1 THEN 1 ELSE @]

LEMMA ExpandBucketsIs ==
    ASSUME NEW t, NEW h, t.ineff_expands \in Nat
    PROVE  \E ineff, order, new :
              /\ ineff \in Nat
              /\ order = BucketByBucket(t, h)
              /\ new = Spread(h, order, 2 * t.num_buckets)
              /\ ExpandBuckets(t, h).tbl =
                    Expanded(t, 2 * t.num_buckets,
                             NewBuckets(new, 2 * t.num_buckets,
                                        IdealChain(t.num_items, 2 * t.num_buckets)), ineff)
              /\ ExpandBuckets(t, h).hh = Relinking(h, Members(order), new, 2 * t.num_buckets)
<1> DEFINE old == t.num_buckets
           order == BucketByBucket(t, h)
           new == Spread(h, order, 2 * old)
           ideal == t.num_items \div (2 * old) + (IF t.num_items % (2 * old) = 0 THEN 0 ELSE 1)
           nonideal == {at \in (0 .. 2 * old - 1) \X (1 .. Cardinality(Elements)) :
                           ideal < at[2] /\ at[2] <= Len(new[at[1]])}
           ineff == IF Cardinality(nonideal) > t.num_items \div 2 THEN t.ineff_expands + 1 ELSE 0
           tb == Expanded(t, 2 * old, NewBuckets(new, 2 * old, ideal), ineff)
           rl == Relinking(h, Members(order), new, 2 * old)
<1>1. ineff \in Nat
  <2> HIDE DEF nonideal
  <2>1. QED
      OBVIOUS
<1>2. ExpandBuckets(t, h) = [tbl |-> tb, hh |-> rl]
    BY DEF ExpandBuckets, NewBuckets, Relinking, Expanded
<1>3. ideal = IdealChain(t.num_items, 2 * old)
    BY DEF IdealChain
<1> HIDE DEF rl, tb
<1>4. ExpandBuckets(t, h).tbl = tb /\ ExpandBuckets(t, h).hh = rl
    BY <1>2
<1> HIDE DEF ineff, ideal, order, new
<1>5. /\ tb = Expanded(t, 2 * old, NewBuckets(new, 2 * old, IdealChain(t.num_items, 2 * old)), ineff)
      /\ rl = Relinking(h, Members(order), new, 2 * old)
      /\ order = BucketByBucket(t, h) /\ new = Spread(h, order, 2 * old)
    BY <1>3 DEF tb, rl, order, new
<1>6. QED
    BY <1>1, <1>4, <1>5

LEMMA Products ==
    ASSUME NEW a \in Nat, NEW b \in Nat, NEW c \in Nat
    PROVE  /\ a * b \in Nat /\ a * (b + c) = a * b + a * c /\ a * b = b * a
           /\ (b <= c => a * b <= a * c)
           /\ (b < c /\ a # 0 => a * b < a * c)
<1>1. \A m, n \in Nat : m * n \in Nat
    OBVIOUS
<1>2. \A k \in Nat : a * (b + k) = a * b + a * k
    OBVIOUS
<1>3. ASSUME b <= c
      PROVE  a * b <= a * c
  <2>1. PICK k \in Nat : c = b + k
    <3>1. c - b \in Nat /\ c = b + (c - b)
        BY <1>3
    <3>2. QED
        BY <3>1
  <2>2. a * c = a * b + a * k /\ a * k \in Nat /\ a * b \in Nat
      BY <1>1, <1>2, <2>1
  <2>3. QED
      BY <2>2
<1>4. ASSUME b < c, a # 0
      PROVE  a * b < a * c
  <2>1. PICK k \in Nat : c = (b + 1) + k
    <3>1. c - (b + 1) \in Nat /\ c = (b + 1) + (c - (b + 1))
        BY <1>4
    <3>2. QED
        BY <3>1
  <2>2. a * c = a * b + a * (1 + k) /\ a * (1 + k) = a + a * k /\ a * k \in Nat /\ a * b \in Nat
    <3>1. c = b + (1 + k)
        BY <2>1
    <3>2. a * c = a * b + a * (1 + k)
        BY <1>2, <3>1
    <3>3. a * (1 + k) = a + a * k
        OBVIOUS
    <3>4. QED
        BY <1>1, <3>2, <3>3
  <2>3. QED
      BY <1>4, <2>2
<1>5. a * b = b * a
    OBVIOUS
<1>6. QED
    BY <1>1, <1>2, <1>3, <1>4, <1>5

LEMMA Division ==
    ASSUME NEW n \in Nat, NEW d \in Nat, d # 0
    PROVE  /\ n \div d \in Nat /\ n % d \in Nat /\ n % d < d
           /\ n = d * (n \div d) + (n % d)
<1>1. n = d * (n \div d) + (n % d)
    OBVIOUS
<1>2. n \div d \in Nat
    OBVIOUS
<1>3. n % d \in Nat /\ n % d < d
    OBVIOUS
<1>4. QED
    BY <1>1, <1>2, <1>3

LEMMA IdealChainIs ==
    ASSUME NEW items \in Nat, items # 0, NEW nb \in Nat, nb # 0
    PROVE  /\ IdealChain(items, nb) \in Nat /\ IdealChain(items, nb) # 0
           /\ items <= nb * IdealChain(items, nb)
           /\ \A T \in Nat : items <= nb * T => IdealChain(items, nb) <= T
<1>1. PICK q \in Nat, r \in Nat : q = items \div nb /\ r = items % nb /\ r < nb /\ items = nb * q + r
    BY Division
<1>2. PICK p \in Nat : p = nb * q
    BY Products
<1>3. CASE r = 0
  <2>1. IdealChain(items, nb) = q
      BY <1>1, <1>3 DEF IdealChain
  <2>2. items = p
      BY <1>1, <1>2, <1>3
  <2>3. q # 0
    <3>1. q = 0 => nb * q = 0
        OBVIOUS
    <3>2. QED
        BY <1>2, <2>2, <3>1
  <2>4. ASSUME NEW T \in Nat, items <= nb * T
        PROVE  q <= T
    <3>1. CASE T < q
      <4>1. nb * T < nb * q
          BY <3>1, Products
      <4>2. nb * T \in Nat
          BY Products
      <4>3. QED
          BY <1>2, <2>2, <2>4, <4>1, <4>2
    <3>2. QED
        BY <3>1
  <2>5. QED
      BY <1>2, <2>1, <2>2, <2>3, <2>4
<1>4. CASE r # 0
  <2>1. IdealChain(items, nb) = q + 1
      BY <1>1, <1>4 DEF IdealChain
  <2>2. nb * (q + 1) = p + nb
    <3>1. nb * (q + 1) = nb * q + nb * 1 /\ nb * 1 = nb
        BY Products
    <3>2. QED
        BY <1>2, <3>1
  <2>3. items <= p + nb /\ p < items
      BY <1>1, <1>2, <1>4
  <2>4. ASSUME NEW T \in Nat, items <= nb * T
        PROVE  q + 1 <= T
    <3>1. CASE T <= q
      <4>1. nb * T <= nb * q
          BY <3>1, Products
      <4>2. nb * T \in Nat
          BY Products
      <4>3. QED
          BY <1>2, <2>3, <2>4, <4>1, <4>2
    <3>2. QED
        BY <3>1
  <2>5. QED
      BY <2>1, <2>2, <2>3, <2>4
<1>5. QED
    BY <1>3, <1>4

LEMMA ExpandedFields ==
    ASSUME NEW t, IsTable(t), NEW nb \in Nat, NEW bkts \in [0 .. nb - 1 -> UT_hash_bucket],
           NEW ineff \in Nat, t.noexpand = 0
    PROVE  /\ IsTable(Expanded(t, nb, bkts, ineff))
           /\ Expanded(t, nb, bkts, ineff).num_buckets = nb
           /\ Expanded(t, nb, bkts, ineff).buckets = bkts
           /\ Expanded(t, nb, bkts, ineff).num_items = t.num_items
           /\ Expanded(t, nb, bkts, ineff).tail = t.tail
           /\ Expanded(t, nb, bkts, ineff).noexpand = 1
                 <=> Expanded(t, nb, bkts, ineff).ineff_expands > 1
<1>1. PICK no \in {0, 1} : no = IF ineff > 1 THEN 1 ELSE 0
    OBVIOUS
<1>2. Expanded(t, nb, bkts, ineff) =
        [tail |-> t.tail, num_buckets |-> nb, num_items |-> t.num_items,
         ineff_expands |-> ineff, noexpand |-> no, buckets |-> bkts]
  <2>1. t = [tail |-> t.tail, num_buckets |-> t.num_buckets, num_items |-> t.num_items,
             ineff_expands |-> t.ineff_expands, noexpand |-> t.noexpand, buckets |-> t.buckets]
      BY DEF IsTable
  <2>2. (IF ineff > 1 THEN 1 ELSE t.noexpand) = no
      BY <1>1
  <2>3. Expanded(t, nb, bkts, ineff) =
           [t EXCEPT !.num_buckets = nb, !.buckets = bkts, !.ineff_expands = ineff, !.noexpand = no]
      BY <2>2 DEF Expanded
  <2>4. QED
      BY <2>1, <2>3
<1>3. QED
    BY <1>1, <1>2 DEF IsTable

LEMMA ExpandedBuckets ==
    ASSUME NEW t, NEW h, NEW S, WholeBuckets(t, h, S), t.noexpand = 0, t.num_items # 0
    PROVE  /\ WholeBuckets(ExpandBuckets(t, h).tbl, ExpandBuckets(t, h).hh, S)
           /\ ExpandBuckets(t, h).tbl.num_buckets = 2 * t.num_buckets
           /\ ExpandBuckets(t, h).tbl.num_items = t.num_items
           /\ ExpandBuckets(t, h).tbl.tail = t.tail
           /\ ExpandBuckets(t, h).tbl.noexpand = 1 <=> ExpandBuckets(t, h).tbl.ineff_expands > 1
           /\ \A b \in 0 .. 2 * t.num_buckets - 1 :
                 ExpandBuckets(t, h).tbl.buckets[b].expand_mult =
                    ExpandMult(ExpandBuckets(t, h).tbl.buckets[b].count,
                               IdealChain(t.num_items, 2 * t.num_buckets))
           /\ \A e \in Elements :
                 /\ ExpandBuckets(t, h).hh[e].next = h[e].next
                 /\ ExpandBuckets(t, h).hh[e].prev = h[e].prev
                 /\ ExpandBuckets(t, h).hh[e].hashv = h[e].hashv
<1>1. /\ IsTable(t) /\ S \subseteq Elements /\ h \in [Elements -> UT_hash_handle]
      /\ t.num_buckets \in Nat /\ t.num_buckets # 0 /\ t.num_items \in Nat /\ t.ineff_expands \in Nat
    BY DEF WholeBuckets, IsTable
<1>2. PICK nb \in Nat : nb = 2 * t.num_buckets /\ nb # 0
    BY <1>1
<1>3. PICK ideal \in Nat : ideal = IdealChain(t.num_items, nb) /\ ideal # 0
    BY <1>1, <1>2, IdealChainIs
<1>4. PICK ineff, order, new :
        /\ ineff \in Nat /\ order = BucketByBucket(t, h) /\ new = Spread(h, order, nb)
        /\ ExpandBuckets(t, h).tbl = Expanded(t, nb, NewBuckets(new, nb, ideal), ineff)
        /\ ExpandBuckets(t, h).hh = Relinking(h, Members(order), new, nb)
    BY <1>1, <1>2, <1>3, ExpandBucketsIs
<1>5. order \in Seq(Elements) /\ Once(order) /\ Members(order) = S
    BY <1>4, BucketByBucketIs
<1>6. /\ new \in Chains(nb)
      /\ \A b \in 0 .. nb - 1 : Once(new[b]) /\ Members(new[b]) = InBucket(h, nb, S, b)
    BY <1>1, <1>2, <1>4, <1>5, SpreadIs
<1>7. \A b \in 0 .. nb - 1 : new[b] \in Seq(Elements) /\ Len(new[b]) \in Nat /\ First(new[b]) \in Pointers
  <2>1. SUFFICES ASSUME NEW s \in Seq(Elements)
                 PROVE  Len(s) \in Nat /\ First(s) \in Pointers
      BY <1>6 DEF Chains
  <2>2. Len(s) \in Nat /\ (s # << >> => s[1] \in Elements)
      OBVIOUS
  <2>3. QED
      BY <2>2 DEF First, Pointers
<1>8. PICK bkts : bkts = NewBuckets(new, nb, ideal)
    OBVIOUS
<1>9. \A b \in 0 .. nb - 1 : /\ bkts[b].hh_head = First(new[b]) /\ bkts[b].count = Len(new[b])
                             /\ bkts[b].expand_mult = ExpandMult(Len(new[b]), ideal)
    BY <1>8 DEF NewBuckets, First
<1>10. bkts \in [0 .. nb - 1 -> UT_hash_bucket]
  <2>1. \A n \in Nat : ExpandMult(n, ideal) \in Nat
      BY <1>3, Division DEF ExpandMult
  <2>2. \A b \in 0 .. nb - 1 :
           bkts[b] = [hh_head |-> First(new[b]), count |-> Len(new[b]),
                      expand_mult |-> ExpandMult(Len(new[b]), ideal)]
      BY <1>8 DEF NewBuckets, First
  <2>3. \A b \in 0 .. nb - 1 : bkts[b] \in UT_hash_bucket
    <3>1. SUFFICES ASSUME NEW b \in 0 .. nb - 1
                   PROVE  bkts[b] \in UT_hash_bucket
        OBVIOUS
    <3>2. PICK f \in Pointers, c \in Nat, m \in Nat :
             f = First(new[b]) /\ c = Len(new[b]) /\ m = ExpandMult(Len(new[b]), ideal)
        BY <1>7, <2>1
    <3>3. bkts[b] = [hh_head |-> f, count |-> c, expand_mult |-> m]
        BY <2>2, <3>2
    <3>4. QED
        BY <3>3 DEF UT_hash_bucket
  <2>4. bkts = [b \in 0 .. nb - 1 |-> bkts[b]]
      BY <1>8 DEF NewBuckets
  <2>5. QED
      BY <2>3, <2>4
<1>11. PICK t2, h2 : t2 = ExpandBuckets(t, h).tbl /\ h2 = ExpandBuckets(t, h).hh
    OBVIOUS
<1>12. /\ IsTable(t2) /\ t2.num_buckets = nb /\ t2.buckets = bkts /\ t2.num_items = t.num_items
       /\ t2.tail = t.tail /\ (t2.noexpand = 1 <=> t2.ineff_expands > 1)
    BY <1>1, <1>4, <1>8, <1>10, <1>11, ExpandedFields
<1>13. ASSUME NEW e \in Elements
       PROVE  /\ h2[e] \in UT_hash_handle
              /\ h2[e].next = h[e].next /\ h2[e].prev = h[e].prev /\ h2[e].hashv = h[e].hashv
              /\ e \in S => \E c \in 0 .. nb - 1 :
                    /\ c = HASH_TO_BKT(h[e].hashv, nb) /\ e \in Members(new[c])
                    /\ h2[e].hh_next = Link(new[c], Position(new[c], e))
                    /\ h2[e].hh_prev = BackLink(new[c], Position(new[c], e))
  <2>1. h[e] \in UT_hash_handle /\ h[e].hashv \in Nat
      BY <1>1 DEF UT_hash_handle
  <2>2. h2 = Relinking(h, S, new, nb)
      BY <1>4, <1>5, <1>11
  <2>3. CASE e \notin S
    <3>1. h2[e] = h[e]
        BY <2>2, <2>3 DEF Relinking
    <3>2. QED
        BY <2>1, <2>3, <3>1
  <2>4. CASE e \in S
    <3>1. PICK c \in 0 .. nb - 1 : c = HASH_TO_BKT(h[e].hashv, nb)
        BY <1>2, <2>1, BucketExists
    <3>2. e \in Members(new[c])
        BY <1>6, <2>4, <3>1 DEF InBucket
    <3>3. PICK nx \in Pointers, pv \in Pointers :
             /\ nx = Link(new[c], Position(new[c], e)) /\ pv = BackLink(new[c], Position(new[c], e))
        BY <1>6, <1>7, <3>2, PositionOf
    <3>4. h2[e] = [h[e] EXCEPT !.hh_prev = pv, !.hh_next = nx]
        BY <2>2, <2>4, <3>1, <3>3 DEF Relinking, Link, BackLink
    <3>5. /\ h2[e] \in UT_hash_handle /\ h2[e].next = h[e].next /\ h2[e].prev = h[e].prev
          /\ h2[e].hashv = h[e].hashv /\ h2[e].hh_next = nx /\ h2[e].hh_prev = pv
        BY <2>1, <3>4 DEF UT_hash_handle
    <3>6. QED
        BY <3>1, <3>2, <3>3, <3>5
  <2>5. QED
      BY <2>3, <2>4
<1>14. h2 \in [Elements -> UT_hash_handle]
  <2>1. h2 = [e \in Elements |-> h2[e]]
      BY <1>4, <1>11 DEF Relinking
  <2>2. QED
      BY <1>13, <2>1
<1>15. ASSUME NEW b \in 0 .. nb - 1
       PROVE  WholeBucket(t2.buckets[b], h2, InBucket(h2, nb, S, b))
  <2>1. InBucket(h2, nb, S, b) = InBucket(h, nb, S, b)
      BY <1>1, <1>13 DEF InBucket
  <2>2. PICK s \in Seq(Elements) : s = new[b] /\ Once(s) /\ Members(s) = InBucket(h, nb, S, b)
      BY <1>6, <1>7
  <2>3. ASSUME NEW e \in Members(s)
        PROVE  /\ HhNexts(h2)[e] = Link(s, Position(s, e))
               /\ HhPrevs(h2)[e] = BackLink(s, Position(s, e))
    <3>1. e \in Elements /\ e \in S /\ HASH_TO_BKT(h[e].hashv, nb) = b
        BY <1>1, <2>2 DEF InBucket
    <3>2. h2[e].hh_next = Link(s, Position(s, e)) /\ h2[e].hh_prev = BackLink(s, Position(s, e))
        BY <1>13, <2>2, <3>1
    <3>3. QED
        BY <3>1, <3>2, HandleLinks
  <2>4. Chained(s, First(s), HhNexts(h2), HhPrevs(h2))
      BY <2>2, <2>3, Relinked
  <2>5. t2.buckets[b].hh_head = First(s) /\ t2.buckets[b].count = Len(s)
      BY <1>9, <1>12, <2>2
  <2>6. QED
      BY <2>1, <2>2, <2>4, <2>5 DEF WholeBucket
<1>16. WholeBuckets(t2, h2, S)
    BY <1>1, <1>2, <1>12, <1>14, <1>15 DEF WholeBuckets
<1>17. \A b \in 0 .. nb - 1 : t2.buckets[b].expand_mult = ExpandMult(t2.buckets[b].count, ideal)
    BY <1>9, <1>12
<1>18. QED
    BY <1>2, <1>3, <1>11, <1>12, <1>13, <1>16, <1>17

-----------------------------------------------------------------------------
(* The bound on the chains.  While expansion is not inhibited no chain is longer than
   the length at which its bucket expands; and the multipliers, with one more for each
   chain that is that long, are no more than there are buckets: w[b] is their sum over
   the buckets before b, or more. *)

Capacity(bkt) == HASH_BKT_CAPACITY_THRESH * (bkt.expand_mult + 1)

Weight(bkt) == IF bkt.count < Capacity(bkt) THEN bkt.expand_mult ELSE bkt.expand_mult + 1

Weighs(w, t) ==
    /\ w \in [0 .. t.num_buckets -> Nat] /\ w[0] = 0 /\ w[t.num_buckets] <= t.num_buckets
    /\ \A b \in 0 .. t.num_buckets - 1 : w[b] + Weight(t.buckets[b]) <= w[b + 1]

Bounded(t) ==
    t.noexpand = 0 =>
        /\ \A b \in 0 .. t.num_buckets - 1 : t.buckets[b].count <= Capacity(t.buckets[b])
        /\ \E w : Weighs(w, t)

LEMMA CapacityType ==
    ASSUME NEW bkt \in UT_hash_bucket
    PROVE  /\ HASH_BKT_CAPACITY_THRESH \in Nat /\ HASH_BKT_CAPACITY_THRESH # 0
           /\ bkt.expand_mult \in Nat /\ bkt.count \in Nat /\ Capacity(bkt) \in Nat
           /\ Weight(bkt) \in Nat
           /\ Capacity(bkt) = (bkt.expand_mult + 1) * HASH_BKT_CAPACITY_THRESH
<1>1. PICK T \in Nat : T = HASH_BKT_CAPACITY_THRESH /\ T # 0
    BY UthashAssumption
<1>2. PICK m \in Nat, c \in Nat : m = bkt.expand_mult /\ c = bkt.count
    BY DEF UT_hash_bucket
<1>3. T * (m + 1) \in Nat /\ T * (m + 1) = (m + 1) * T
    BY Products
<1>4. Capacity(bkt) = T * (m + 1)
    BY <1>1, <1>2 DEF Capacity
<1>5. Weight(bkt) \in Nat
    BY <1>2 DEF Weight
<1>6. QED
    BY <1>1, <1>2, <1>3, <1>4, <1>5

(* A chain that gets shorter, or that is shorter than its capacity, keeps the bound. *)
LEMMA BoundKept ==
    ASSUME NEW t, IsTable(t), Bounded(t), NEW t2, IsTable(t2), t2.noexpand = t.noexpand,
           t2.num_buckets = t.num_buckets,
           \A b \in 0 .. t.num_buckets - 1 :
              /\ t2.buckets[b].expand_mult = t.buckets[b].expand_mult
              /\ \/ t2.buckets[b].count <= t.buckets[b].count
                 \/ t2.noexpand = 0 => t2.buckets[b].count < Capacity(t2.buckets[b])
    PROVE  Bounded(t2)
<1>1. SUFFICES ASSUME t2.noexpand = 0
               PROVE  /\ \A b \in 0 .. t.num_buckets - 1 : t2.buckets[b].count <= Capacity(t2.buckets[b])
                      /\ \E w : Weighs(w, t2)
    BY DEF Bounded
<1>2. PICK w : Weighs(w, t)
    BY <1>1 DEF Bounded
<1>3. ASSUME NEW b \in 0 .. t.num_buckets - 1
      PROVE  /\ t2.buckets[b].count <= Capacity(t2.buckets[b])
             /\ Weight(t2.buckets[b]) <= Weight(t.buckets[b])
             /\ Weight(t2.buckets[b]) \in Nat /\ Weight(t.buckets[b]) \in Nat
  <2>1. PICK k \in UT_hash_bucket, k2 \in UT_hash_bucket : k = t.buckets[b] /\ k2 = t2.buckets[b]
      BY DEF IsTable
  <2>2. /\ k.count \in Nat /\ k2.count \in Nat /\ Capacity(k) \in Nat /\ k.expand_mult \in Nat
        /\ Weight(k) \in Nat /\ Weight(k2) \in Nat
      BY CapacityType
  <2>3. /\ k2.expand_mult = k.expand_mult /\ k.count <= Capacity(k)
        /\ k2.count <= k.count \/ k2.count < Capacity(k2)
      BY <1>1, <2>1 DEF Bounded
  <2>4. Capacity(k2) = Capacity(k)
      BY <2>3 DEF Capacity
  <2>5. k2.count <= Capacity(k2)
      BY <2>2, <2>3, <2>4
  <2>6. Weight(k2) <= Weight(k)
      BY <2>2, <2>3, <2>4 DEF Weight
  <2>7. QED
      BY <2>1, <2>2, <2>5, <2>6
<1>4. Weighs(w, t2)
  <2>1. ASSUME NEW b \in 0 .. t.num_buckets - 1
        PROVE  w[b] + Weight(t2.buckets[b]) <= w[b + 1]
    <3>1. w[b] \in Nat /\ w[b + 1] \in Nat /\ w[b] + Weight(t.buckets[b]) <= w[b + 1]
      <4>1. b \in 0 .. t.num_buckets /\ b + 1 \in 0 .. t.num_buckets
          BY DEF IsTable
      <4>2. QED
          BY <1>2, <4>1 DEF Weighs
    <3>2. QED
        BY <1>3, <3>1
  <2>2. QED
      BY <1>2, <2>1 DEF Weighs
<1>5. QED
    BY <1>3, <1>4

(* The buckets before b + 1 hold those before b and what is in b. *)
LEMMA BelowGrows ==
    ASSUME NEW t, NEW h, NEW S, WholeBuckets(t, h, S), NEW b \in 0 .. t.num_buckets - 1
    PROVE  /\ Cardinality(Below(h, t.num_buckets, S, b)) \in Nat
           /\ Cardinality(Below(h, t.num_buckets, S, b + 1)) =
                 Cardinality(Below(h, t.num_buckets, S, b)) + t.buckets[b].count
<1> DEFINE nb == t.num_buckets
           P == Below(h, nb, S, b)
           Q == InBucket(h, nb, S, b)
<1>1. nb \in Nat /\ nb # 0 /\ S \subseteq Elements /\ \A x \in Elements : h[x].hashv \in Nat
    BY DEF WholeBuckets, IsTable, UT_hash_handle
<1>2. PICK s : s \in Seq(Elements) /\ Once(s) /\ Members(s) = Q /\ t.buckets[b].count = Len(s)
    BY DEF WholeBuckets, WholeBucket, Chained
<1>3. IsFiniteSet(Q) /\ Cardinality(Q) = t.buckets[b].count
    BY <1>2, OnceLength
<1>4. P \in SUBSET Elements /\ IsFiniteSet(Elements)
    BY <1>1, UthashAssumption DEF Below
<1>5. IsFiniteSet(P)
    BY <1>4, FS_Subset
<1>6. Cardinality(P) \in Nat /\ Cardinality(Q) \in Nat
    BY <1>3, <1>5, FS_CardinalityType
<1>7. P \cap Q = {} /\ P \cup Q = Below(h, nb, S, b + 1)
  <2>1. \A e \in S : HASH_TO_BKT(h[e].hashv, nb) \in 0 .. nb - 1
      BY <1>1, BucketExists
  <2>2. \A k \in 0 .. nb - 1 : (k < b => k # b) /\ (k < b + 1 <=> (k < b \/ k = b))
      OBVIOUS
  <2>3. \A e \in S : /\ HASH_TO_BKT(h[e].hashv, nb) < b => HASH_TO_BKT(h[e].hashv, nb) # b
                     /\ HASH_TO_BKT(h[e].hashv, nb) < b + 1 <=>
                           (HASH_TO_BKT(h[e].hashv, nb) < b \/ HASH_TO_BKT(h[e].hashv, nb) = b)
      BY <2>1, <2>2
  <2>4. QED
      BY <2>3 DEF Below, InBucket
<1>8. Cardinality(P \cup Q) = Cardinality(P) + Cardinality(Q) - Cardinality(P \cap Q)
    BY <1>3, <1>5, FS_Union
<1>9. Cardinality(P \cap Q) = 0
    BY <1>7, FS_EmptySet
<1> HIDE DEF P, Q, nb
<1>10. PICK p \in Nat, q \in Nat : p = Cardinality(P) /\ q = Cardinality(Q)
    BY <1>6
<1>11. Cardinality(Below(h, nb, S, b + 1)) = p + q
  <2>1. Cardinality(P \cup Q) = p + q - 0
      BY <1>8, <1>9, <1>10
  <2>2. p + q - 0 = p + q
      OBVIOUS
  <2>3. QED
      BY <1>7, <2>1, <2>2
<1>12. QED
    BY <1>3, <1>10, <1>11 DEF P, Q, nb

LEMMA BelowEnds ==
    ASSUME NEW t, NEW h, NEW S, WholeBuckets(t, h, S)
    PROVE  /\ Below(h, t.num_buckets, S, 0) = {} /\ Below(h, t.num_buckets, S, t.num_buckets) = S
           /\ Cardinality(Below(h, t.num_buckets, S, 0)) = 0
<1> DEFINE nb == t.num_buckets
<1>1. nb \in Nat /\ nb # 0 /\ S \subseteq Elements /\ \A x \in Elements : h[x].hashv \in Nat
    BY DEF WholeBuckets, IsTable, UT_hash_handle
<1>2. \A e \in S : HASH_TO_BKT(h[e].hashv, nb) \in 0 .. nb - 1
    BY <1>1, BucketExists
<1>3. \A k \in 0 .. nb - 1 : ~(k < 0) /\ k < nb
    BY <1>1
<1>4. Below(h, nb, S, 0) = {} /\ Below(h, nb, S, nb) = S
    BY <1>2, <1>3 DEF Below
<1>5. QED
    BY <1>4, FS_EmptySet

LEMMA BoundedItems ==
    ASSUME NEW t, NEW h, NEW S, WholeBuckets(t, h, S), Bounded(t), t.noexpand = 0
    PROVE  /\ Cardinality(S) \in Nat /\ t.num_buckets \in Nat
           /\ Cardinality(S) + 1 <= (2 * t.num_buckets) * HASH_BKT_CAPACITY_THRESH
<1>1. PICK nb \in Nat, T \in Nat : nb = t.num_buckets /\ nb # 0 /\ T = HASH_BKT_CAPACITY_THRESH /\ T # 0
    BY UthashAssumption DEF WholeBuckets, IsTable
<1>2. PICK w : Weighs(w, t)
    BY DEF Bounded
<1>3. /\ w \in [0 .. nb -> Nat] /\ w[0] = 0 /\ w[nb] <= nb
      /\ \A b \in 0 .. nb - 1 : w[b] + Weight(t.buckets[b]) <= w[b + 1]
    BY <1>1, <1>2 DEF Weighs
<1> DEFINE c(n) == Cardinality(Below(h, nb, S, n))
           I == {n \in Nat : n <= nb => c(n) \in Nat /\ c(n) + n <= T * (w[n] + n)}
<1>4. 0 \in I
  <2>1. c(0) = 0
      BY <1>1, BelowEnds
  <2>2. T * (w[0] + 0) = 0 /\ 0 + 0 <= 0
      BY <1>3
  <2>3. QED
      BY <2>1, <2>2
<1>5. ASSUME NEW n \in Nat, n \in I
      PROVE  n + 1 \in I
  <2>1. SUFFICES ASSUME n + 1 <= nb
                 PROVE  c(n + 1) \in Nat /\ c(n + 1) + (n + 1) <= T * (w[n + 1] + (n + 1))
      OBVIOUS
  <2>2. n \in 0 .. nb - 1 /\ n <= nb /\ n \in 0 .. nb /\ n + 1 \in 0 .. nb
      BY <1>1, <2>1
  <2>3. PICK k \in UT_hash_bucket : k = t.buckets[n]
      BY <1>1, <2>2 DEF WholeBuckets, IsTable
  <2>4. PICK cn \in Nat, u \in Nat, u2 \in Nat, wt \in Nat, cnt \in Nat, m \in Nat :
           /\ cn = c(n) /\ u = w[n] /\ u2 = w[n + 1]
           /\ wt = Weight(k) /\ cnt = k.count /\ m = k.expand_mult
      BY <1>3, <1>5, <2>2, CapacityType
  <2>5. cn + n <= T * (u + n) /\ u + wt <= u2
      BY <1>3, <1>5, <2>2, <2>3, <2>4
  <2>6. c(n + 1) = cn + cnt
      BY <1>1, <2>2, <2>3, <2>4, BelowGrows
  <2>7. cnt + 1 <= T * (wt + 1)
    <3>1. PICK cap \in Nat : cap = T * (m + 1)
        BY Products
    <3>2. Capacity(k) = cap
        BY <1>1, <2>4, <3>1 DEF Capacity
    <3>3. cnt <= cap
        BY <1>1, <2>2, <2>3, <2>4, <3>2 DEF Bounded
    <3>4. CASE cnt < cap
      <4>1. wt = m
          BY <2>4, <3>2, <3>4 DEF Weight
      <4>2. QED
          BY <3>1, <3>4, <4>1
    <3>5. CASE ~(cnt < cap)
      <4>1. wt = m + 1
          BY <2>4, <3>2, <3>5 DEF Weight
      <4>2. T * (wt + 1) = T * wt + T * 1 /\ T * 1 = T
          BY Products
      <4>3. T * (wt + 1) = cap + T
          BY <3>1, <4>1, <4>2
      <4>4. QED
          BY <1>1, <3>3, <4>3
    <3>6. QED
        BY <3>4, <3>5
  <2>8. (cn + n) + (cnt + 1) <= T * ((u + n) + (wt + 1))
    <3>1. T * ((u + n) + (wt + 1)) = T * (u + n) + T * (wt + 1)
        BY Products
    <3>2. T * (u + n) \in Nat /\ T * (wt + 1) \in Nat
        BY Products
    <3>3. QED
        BY <2>5, <2>7, <3>1, <3>2
  <2>9. T * ((u + n) + (wt + 1)) <= T * (u2 + (n + 1))
    <3>1. (u + n) + (wt + 1) <= u2 + (n + 1)
        BY <2>5
    <3>2. (u + n) + (wt + 1) \in Nat /\ u2 + (n + 1) \in Nat
        OBVIOUS
    <3>3. QED
        BY <3>1, <3>2, Products
  <2>10. T * ((u + n) + (wt + 1)) \in Nat /\ T * (u2 + (n + 1)) \in Nat
    <3>1. (u + n) + (wt + 1) \in Nat /\ u2 + (n + 1) \in Nat
        OBVIOUS
    <3>2. QED
        BY <3>1, Products
  <2>11. (cn + cnt) + (n + 1) <= T * (u2 + (n + 1))
      BY <2>8, <2>9, <2>10
  <2>12. QED
      BY <2>4, <2>6, <2>11
<1> HIDE DEF I
<1>6. nb \in I
    BY <1>4, <1>5, SetInduction
<1>7. PICK N \in Nat, u \in Nat : N = Cardinality(S) /\ u = w[nb] /\ u <= nb /\ N + nb <= T * (u + nb)
  <2>1. c(nb) = Cardinality(S)
      BY <1>1, BelowEnds
  <2>2. w[nb] \in Nat /\ w[nb] <= nb
      BY <1>3
  <2>3. QED
      BY <1>6, <2>1, <2>2 DEF I
<1>8. T * (u + nb) <= T * (2 * nb)
  <2>1. u + nb <= 2 * nb /\ u + nb \in Nat /\ 2 * nb \in Nat
      BY <1>7
  <2>2. QED
      BY <2>1, Products
<1>9. T * (u + nb) \in Nat /\ T * (2 * nb) \in Nat /\ T * (2 * nb) = (2 * nb) * T
  <2>1. u + nb \in Nat /\ 2 * nb \in Nat
      OBVIOUS
  <2>2. QED
      BY <2>1, Products
<1>10. N + 1 <= (2 * nb) * T
    BY <1>1, <1>7, <1>8, <1>9
<1>11. QED
    BY <1>1, <1>7, <1>10

LEMMA Quotient ==
    ASSUME NEW n \in Nat, NEW d \in Nat, d # 0, NEW k \in Nat
    PROVE  /\ (d * k <= n => k <= n \div d)
           /\ (n <= d * k => n \div d <= k)
           /\ n < d * (n \div d + 1)
           /\ d * (n \div d) <= n /\ n \div d \in Nat
<1>1. PICK q \in Nat, r \in Nat : q = n \div d /\ r = n % d /\ r < d /\ n = d * q + r
    BY Division
<1>2. PICK p \in Nat, p1 \in Nat, pk \in Nat : p = d * q /\ p1 = d * (q + 1) /\ pk = d * k
    BY Products
<1>3. p1 = p + d
  <2>1. d * (q + 1) = d * q + d * 1 /\ d * 1 = d
      BY Products
  <2>2. QED
      BY <1>2, <2>1
<1>4. ASSUME pk <= n, q < k
      PROVE  FALSE
  <2>1. q + 1 <= k /\ q + 1 \in Nat
      BY <1>4
  <2>2. p1 <= pk
      BY <1>2, <2>1, Products
  <2>3. QED
      BY <1>1, <1>2, <1>3, <1>4, <2>2
<1>5. ASSUME n <= pk, k < q
      PROVE  FALSE
  <2>1. pk < p
      BY <1>2, <1>5, Products
  <2>2. QED
      BY <1>1, <1>2, <1>5, <2>1
<1>6. n < p1 /\ p <= n
    BY <1>1, <1>2, <1>3
<1>7. QED
    BY <1>1, <1>2, <1>4, <1>5, <1>6

LEMMA QuotientSum ==
    ASSUME NEW m \in Nat, NEW n \in Nat, NEW d \in Nat, d # 0
    PROVE  m \div d + n \div d <= (m + n) \div d
<1>1. PICK p \in Nat, q \in Nat : p = m \div d /\ q = n \div d /\ d * p <= m /\ d * q <= n
    BY Quotient
<1>2. d * (p + q) = d * p + d * q /\ d * p \in Nat /\ d * q \in Nat
    BY Products
<1>3. d * (p + q) <= m + n /\ p + q \in Nat /\ m + n \in Nat
    BY <1>1, <1>2
<1>4. p + q <= (m + n) \div d
    BY <1>3, Quotient
<1>5. QED
    BY <1>1, <1>4

(* Of a chain that was just built: ideal is no more than the threshold. *)
LEMMA NewChain ==
    ASSUME NEW bkt \in UT_hash_bucket, NEW ideal \in Nat, ideal # 0, ideal <= HASH_BKT_CAPACITY_THRESH,
           bkt.expand_mult = ExpandMult(bkt.count, ideal)
    PROVE  bkt.count <= Capacity(bkt) /\ Weight(bkt) <= bkt.count \div ideal
<1>1. PICK T \in Nat, m \in Nat, n \in Nat, q \in Nat :
         /\ T = HASH_BKT_CAPACITY_THRESH /\ m = bkt.expand_mult /\ n = bkt.count /\ q = n \div ideal
    BY CapacityType, Quotient
<1>2. PICK cap \in Nat : cap = T * (m + 1) /\ cap = Capacity(bkt)
    BY <1>1, Products DEF Capacity
<1>3. m = IF n > ideal THEN q ELSE 0
    BY <1>1 DEF ExpandMult
<1>4. Weight(bkt) = IF n < cap THEN m ELSE m + 1
    BY <1>1, <1>2 DEF Weight
<1>5. CASE n > ideal
  <2>1. n < ideal * (q + 1)
      BY <1>1, Quotient
  <2>2. ideal * (q + 1) <= T * (q + 1)
    <3>1. q + 1 \in Nat
        OBVIOUS
    <3>2. (q + 1) * ideal <= (q + 1) * T
        BY <1>1, <3>1, Products
    <3>3. (q + 1) * ideal = ideal * (q + 1) /\ (q + 1) * T = T * (q + 1)
        BY <3>1, Products
    <3>4. QED
        BY <3>2, <3>3
  <2>3. ideal * (q + 1) \in Nat
      BY Products
  <2>4. n < cap
      BY <1>2, <1>3, <1>5, <2>1, <2>2, <2>3
  <2>5. QED
      BY <1>1, <1>2, <1>3, <1>4, <1>5, <2>4
<1>6. CASE ~(n > ideal)
  <2>1. cap = T
    <3>1. T * (0 + 1) = T
        OBVIOUS
    <3>2. QED
        BY <1>2, <1>3, <1>6, <3>1
  <2>2. n <= cap
      BY <1>1, <1>6, <2>1
  <2>3. CASE n < cap
    <3>1. Weight(bkt) = 0
        BY <1>3, <1>4, <1>6, <2>3
    <3>2. QED
        BY <1>1, <1>2, <2>2, <3>1
  <2>4. CASE ~(n < cap)
    <3>1. ideal * 1 <= n
        BY <1>1, <1>6, <2>1, <2>4
    <3>2. 1 <= q
        BY <1>1, <3>1, Quotient
    <3>3. Weight(bkt) = 1
        BY <1>3, <1>4, <1>6, <2>4
    <3>4. QED
        BY <1>1, <1>2, <2>2, <3>2, <3>3
  <2>5. QED
      BY <2>3, <2>4
<1>7. QED
    BY <1>5, <1>6

LEMMA ExpandedBounded ==
    ASSUME NEW t, NEW h, NEW S, WholeBuckets(t, h, S), NEW ideal \in Nat, ideal # 0,
           ideal <= HASH_BKT_CAPACITY_THRESH, Cardinality(S) \in Nat,
           Cardinality(S) <= t.num_buckets * ideal,
           \A b \in 0 .. t.num_buckets - 1 :
              t.buckets[b].expand_mult = ExpandMult(t.buckets[b].count, ideal)
    PROVE  Bounded(t)
<1>1. PICK nb \in Nat : nb = t.num_buckets /\ nb # 0
    BY DEF WholeBuckets, IsTable
<1> DEFINE c(n) == Cardinality(Below(h, nb, S, n))
           w == [n \in 0 .. nb |-> c(n) \div ideal]
<1>2. \A b \in 0 .. nb - 1 : t.buckets[b] \in UT_hash_bucket
    BY <1>1 DEF WholeBuckets, IsTable
<1>3. \A b \in 0 .. nb - 1 : c(b) \in Nat /\ c(b + 1) = c(b) + t.buckets[b].count
    BY <1>1, BelowGrows
<1>4. c(0) = 0 /\ c(nb) = Cardinality(S)
    BY <1>1, BelowEnds
<1>5. \A n \in 0 .. nb : c(n) \in Nat
  <2>1. \A n \in 0 .. nb : n \in 0 .. nb - 1 \/ n = nb
      BY <1>1
  <2> HIDE DEF c
  <2>2. QED
      BY <1>3, <1>4, <2>1
<1>6. \A b \in 0 .. nb - 1 :
         /\ t.buckets[b].count <= Capacity(t.buckets[b])
         /\ Weight(t.buckets[b]) <= t.buckets[b].count \div ideal
    BY <1>1, <1>2, NewChain
<1> HIDE DEF c
<1>7. w \in [0 .. nb -> Nat]
    BY <1>5, Quotient
<1>8. w[0] = 0
  <2>1. 0 \in 0 .. nb /\ 0 \div ideal <= 0 /\ 0 \div ideal \in Nat
    <3>1. 0 <= ideal * 0
        OBVIOUS
    <3>2. QED
        BY <3>1, Quotient
  <2>2. QED
      BY <1>4, <2>1
<1>9. w[nb] <= nb
  <2>1. PICK N \in Nat : N = Cardinality(S) /\ N <= ideal * nb
    <3>1. nb * ideal = ideal * nb
        BY Products
    <3>2. QED
        BY <1>1, <3>1
  <2>2. N \div ideal <= nb
      BY <2>1, Quotient
  <2>3. nb \in 0 .. nb
      OBVIOUS
  <2>4. QED
      BY <1>4, <2>1, <2>2, <2>3
<1>10. ASSUME NEW b \in 0 .. nb - 1
       PROVE  w[b] + Weight(t.buckets[b]) <= w[b + 1]
  <2>1. b \in 0 .. nb /\ b + 1 \in 0 .. nb
      BY <1>1
  <2>2. PICK m \in Nat, n \in Nat, wt \in Nat :
           m = c(b) /\ n = t.buckets[b].count /\ wt = Weight(t.buckets[b]) /\ c(b + 1) = m + n
      BY <1>2, <1>3, CapacityType
  <2>3. PICK p \in Nat, q \in Nat, s \in Nat :
           p = m \div ideal /\ q = n \div ideal /\ s = (m + n) \div ideal
    <3>1. m + n \in Nat
        OBVIOUS
    <3>2. QED
        BY <3>1, Quotient
  <2>4. p + q <= s
      BY <2>3, QuotientSum
  <2>5. wt <= q
      BY <1>6, <2>2, <2>3
  <2>6. w[b] = p /\ w[b + 1] = s
      BY <2>1, <2>2, <2>3
  <2>7. QED
      BY <2>2, <2>4, <2>5, <2>6
<1> HIDE DEF w
<1>11. Weighs(w, t)
    BY <1>1, <1>7, <1>8, <1>9, <1>10 DEF Weighs
<1>12. QED
    BY <1>1, <1>6, <1>11 DEF Bounded

-----------------------------------------------------------------------------
(* AddToBkt, with its expansion *)

LEMMA AddToBktIs ==
    ASSUME NEW t, NEW h, NEW b, NEW e, NEW t2, t2 = Counted(t, b, e), NEW h2, h2 = Pushing(t, h, b, e)
    PROVE  AddToBkt(t, h, b, e) =
              IF /\ t2.buckets[b].count >= (t2.buckets[b].expand_mult + 1) * HASH_BKT_CAPACITY_THRESH
                 /\ t.noexpand # 1
              THEN ExpandBuckets(t2, h2)
              ELSE [tbl |-> t2, hh |-> h2]
    BY DEF AddToBkt, Counted, Pushing

LEMMA PushingFields ==
    ASSUME NEW t, NEW h \in [Elements -> UT_hash_handle], NEW b, NEW e \in Elements, NEW x \in Elements
    PROVE  /\ Pushing(t, h, b, e)[x].next = h[x].next /\ Pushing(t, h, b, e)[x].prev = h[x].prev
           /\ Pushing(t, h, b, e)[x].hashv = h[x].hashv
<1>1. PICK first : first = t.buckets[b].hh_head
    OBVIOUS
<1>2. h[x] \in UT_hash_handle
    OBVIOUS
<1>3. Pushing(t, h, b, e)[x] = IF x = e THEN [h[e] EXCEPT !.hh_next = first, !.hh_prev = NULL]
                               ELSE IF x = first THEN [h[x] EXCEPT !.hh_prev = e] ELSE h[x]
    BY <1>1 DEF Pushing
<1>4. QED
    BY <1>2, <1>3 DEF UT_hash_handle

(* e can be added to bucket b: it is linked at the end, and counted in num_items. *)
Addable(t, h, S, e, b) ==
    /\ WholeBuckets(t, h, S) /\ Bounded(t) /\ e \in Elements /\ e \notin S
    /\ b = HASH_TO_BKT(h[e].hashv, t.num_buckets) /\ t.num_items = Cardinality(S \cup {e})
    /\ t.noexpand = 1 <=> t.ineff_expands > 1

LEMMA AddedToBkt ==
    ASSUME NEW t, NEW h, NEW S, NEW e, NEW b, Addable(t, h, S, e, b),
           NEW U, U = S \cup {e}, NEW tX, tX = AddToBkt(t, h, b, e).tbl,
           NEW hX, hX = AddToBkt(t, h, b, e).hh
    PROVE  /\ WholeBuckets(tX, hX, U) /\ Bounded(tX)
           /\ tX.num_items = t.num_items /\ tX.tail = t.tail
           /\ tX.noexpand = 1 <=> tX.ineff_expands > 1
           /\ \A x \in Elements : /\ hX[x].next = h[x].next /\ hX[x].prev = h[x].prev
                                  /\ hX[x].hashv = h[x].hashv
<1>a. /\ WholeBuckets(t, h, S) /\ Bounded(t) /\ e \in Elements /\ e \notin S
      /\ b = HASH_TO_BKT(h[e].hashv, t.num_buckets) /\ t.num_items = Cardinality(S \cup {e})
      /\ (t.noexpand = 1 <=> t.ineff_expands > 1)
    BY DEF Addable
<1>0. PICK X : X = AddToBkt(t, h, b, e)
    OBVIOUS
<1>1. PICK t2, h2 : t2 = Counted(t, b, e) /\ h2 = Pushing(t, h, b, e)
    OBVIOUS
<1>2. PICK T \in Nat : T = HASH_BKT_CAPACITY_THRESH
    BY UthashAssumption
<1>3. /\ IsTable(t) /\ t.num_buckets \in Nat /\ t.num_buckets # 0 /\ h[e].hashv \in Nat
      /\ h \in [Elements -> UT_hash_handle] /\ S \subseteq Elements
    BY <1>a DEF WholeBuckets, IsTable, UT_hash_handle
<1>4. b \in 0 .. t.num_buckets - 1
    BY <1>3, <1>a, BucketExists
<1>5. WholeBuckets(t2, h2, S \cup {e})
    BY <1>1, <1>a, BucketPushed
<1>6. /\ IsTable(t2) /\ t2.num_buckets = t.num_buckets /\ t2.num_items = t.num_items
      /\ t2.tail = t.tail /\ t2.noexpand = t.noexpand /\ t2.ineff_expands = t.ineff_expands
      /\ t2.buckets[b].count = t.buckets[b].count + 1
      /\ t2.buckets[b].expand_mult = t.buckets[b].expand_mult
      /\ \A c \in 0 .. t.num_buckets - 1 : c # b => t2.buckets[c] = t.buckets[c]
  <2>1. /\ IsTable(t2) /\ t2.num_buckets = t.num_buckets /\ t2.num_items = t.num_items
        /\ t2.tail = t.tail /\ t2.noexpand = t.noexpand /\ t2.ineff_expands = t.ineff_expands
        /\ t2.buckets[b] = [hh_head |-> e, count |-> t.buckets[b].count + 1,
                            expand_mult |-> t.buckets[b].expand_mult]
        /\ \A c \in 0 .. t.num_buckets - 1 : c # b => t2.buckets[c] = t.buckets[c]
      BY <1>1, <1>3, <1>4, <1>a, CountedFields
  <2>2. QED
      BY <2>1
<1>7. \A x \in Elements : h2[x].next = h[x].next /\ h2[x].prev = h[x].prev /\ h2[x].hashv = h[x].hashv
    BY <1>1, <1>3, <1>a, PushingFields
<1>8. PICK k \in UT_hash_bucket : k = t2.buckets[b]
    BY <1>4, <1>6 DEF IsTable
<1>9. k.count \in Nat /\ Capacity(k) \in Nat /\ Capacity(k) = (k.expand_mult + 1) * T
    BY <1>2, CapacityType
<1>10. X = IF k.count >= (k.expand_mult + 1) * T /\ t.noexpand # 1
           THEN ExpandBuckets(t2, h2) ELSE [tbl |-> t2, hh |-> h2]
    BY <1>0, <1>1, <1>2, <1>8, AddToBktIs
<1>11. X = IF k.count >= Capacity(k) /\ t.noexpand # 1
           THEN ExpandBuckets(t2, h2) ELSE [tbl |-> t2, hh |-> h2]
    BY <1>9, <1>10
<1>12. CASE k.count >= Capacity(k) /\ t.noexpand # 1
  <2>1. X = ExpandBuckets(t2, h2) /\ t.noexpand = 0
      BY <1>3, <1>11, <1>12 DEF IsTable
  <2>2. /\ Cardinality(S) \in Nat
        /\ Cardinality(S) + 1 <= (2 * t.num_buckets) * T
      BY <1>2, <1>a, <2>1, BoundedItems
  <2>3. PICK N \in Nat : N = t.num_items /\ N # 0 /\ N <= (2 * t.num_buckets) * T /\ N = Cardinality(S \cup {e})
    <3>1. IsFiniteSet(S)
        BY <1>3, FS_Subset, UthashAssumption
    <3>2. Cardinality(S \cup {e}) = Cardinality(S) + 1
        BY <1>a, <3>1, FS_AddElement
    <3>3. QED
        BY <1>a, <2>2, <3>2
  <2>4. PICK nb \in Nat : nb = 2 * t.num_buckets /\ nb # 0
      BY <1>3
  <2>5. PICK ideal \in Nat : ideal = IdealChain(N, nb) /\ ideal # 0 /\ N <= nb * ideal /\ ideal <= T
      BY <2>3, <2>4, IdealChainIs
  <2>a. U = S \cup {e} /\ tX = X.tbl /\ hX = X.hh
      BY <1>0
  <2>b. WholeBuckets(t2, h2, U) /\ t2.noexpand = 0 /\ t2.num_items # 0 /\ t2.num_items = N
        /\ 2 * t2.num_buckets = nb
      BY <1>5, <1>6, <2>1, <2>3, <2>4, <2>a
  <2>6. /\ WholeBuckets(tX, hX, U) /\ tX.num_buckets = nb
        /\ tX.num_items = t2.num_items /\ tX.tail = t2.tail
        /\ (tX.noexpand = 1 <=> tX.ineff_expands > 1)
        /\ \A c \in 0 .. nb - 1 :
              tX.buckets[c].expand_mult = ExpandMult(tX.buckets[c].count, ideal)
        /\ \A x \in Elements : /\ hX[x].next = h2[x].next /\ hX[x].prev = h2[x].prev
                               /\ hX[x].hashv = h2[x].hashv
    <3>1. /\ WholeBuckets(tX, hX, U) /\ tX.num_buckets = 2 * t2.num_buckets
          /\ tX.num_items = t2.num_items /\ tX.tail = t2.tail
          /\ (tX.noexpand = 1 <=> tX.ineff_expands > 1)
          /\ \A c \in 0 .. 2 * t2.num_buckets - 1 :
                tX.buckets[c].expand_mult = ExpandMult(tX.buckets[c].count,
                                               IdealChain(t2.num_items, 2 * t2.num_buckets))
          /\ \A x \in Elements : /\ hX[x].next = h2[x].next /\ hX[x].prev = h2[x].prev
                                 /\ hX[x].hashv = h2[x].hashv
      <4>1. tX = ExpandBuckets(t2, h2).tbl /\ hX = ExpandBuckets(t2, h2).hh
          BY <2>1, <2>a
      <4>2. WholeBuckets(t2, h2, U) /\ t2.noexpand = 0 /\ t2.num_items # 0
          BY <2>b
      <4>3. QED
          BY <4>1, <4>2, ExpandedBuckets
    <3>2. QED
        BY <2>5, <2>b, <3>1
  <2>7. Bounded(tX)
    <3>1. /\ Cardinality(U) \in Nat /\ Cardinality(U) <= tX.num_buckets * ideal
          /\ ideal <= HASH_BKT_CAPACITY_THRESH
        BY <1>2, <2>3, <2>5, <2>6, <2>a
    <3>2. \A c \in 0 .. tX.num_buckets - 1 :
             tX.buckets[c].expand_mult = ExpandMult(tX.buckets[c].count, ideal)
        BY <2>6
    <3>3. WholeBuckets(tX, hX, U) /\ ideal # 0
        BY <2>5, <2>6
    <3>4. QED
        BY <3>1, <3>2, <3>3, ExpandedBounded
  <2>8. QED
      BY <1>6, <1>7, <1>a, <2>6, <2>7, <2>a
<1>13. CASE ~(k.count >= Capacity(k) /\ t.noexpand # 1)
  <2>1. tX = t2 /\ hX = h2
      BY <1>0, <1>11, <1>13
  <2>2. Bounded(t2)
    <3>1. ASSUME NEW c \in 0 .. t.num_buckets - 1
          PROVE  /\ t2.buckets[c].expand_mult = t.buckets[c].expand_mult
                 /\ \/ t2.buckets[c].count <= t.buckets[c].count
                    \/ t2.noexpand = 0 => t2.buckets[c].count < Capacity(t2.buckets[c])
      <4>1. CASE c = b
          BY <1>6, <1>8, <1>9, <1>13, <4>1
      <4>2. CASE c # b
        <5>1. t2.buckets[c] = t.buckets[c] /\ t.buckets[c].count \in Nat
            BY <1>3, <1>6, <4>2 DEF IsTable, UT_hash_bucket
        <5>2. QED
            BY <5>1
      <4>3. QED
          BY <4>1, <4>2
    <3>2. QED
        BY <1>3, <1>6, <1>a, <3>1, BoundKept
  <2>3. QED
      BY <1>5, <1>6, <1>7, <1>a, <2>1, <2>2
<1>14. QED
    BY <1>12, <1>13

-----------------------------------------------------------------------------
(* The inductive invariant: s is what is in the table, in application order. *)

Holds(f, hd, t, h, s) ==
    /\ f \in [Keys -> HashValues] /\ h \in [Elements -> UT_hash_handle]
    /\ Chained(s, hd, Nexts(h), Prevs(h))
    /\ s = << >> => t = NoTable
    /\ s # << >> =>
          /\ t.tail = s[Len(s)] /\ t.num_items = Len(s)
          /\ WholeBuckets(t, h, Members(s)) /\ Bounded(t)
          /\ t.noexpand = 1 <=> t.ineff_expands > 1
          /\ \A e \in Members(s) : h[e].hashv = f[KeyOf[e]]

IInv == Holds(HASH_FCN, head, tbl, hh, AppOrder)

LEMMA OrderIs ==
    ASSUME NEW f, NEW hd, NEW t, NEW h, NEW s, Holds(f, hd, t, h, s)
    PROVE  Chain(hd, Nexts(h)) = s
<1>1. Nexts(h)[NULL] = NULL
    BY DEF Nexts, Pointers
<1>2. QED
    BY <1>1, ChainIs DEF Holds

LEMMA EmptyChain ==
    ASSUME NEW link, NEW back
    PROVE  Chained(<< >>, NULL, link, back)
<1>1. << >> \in Seq(Elements) /\ Once(<< >>) /\ First(<< >>) = NULL /\ \A n \in 1 .. Len(<< >>) : FALSE
    BY NoMember DEF First
<1>2. QED
    BY <1>1 DEF Chained

LEMMA HeadIs ==
    ASSUME NEW s, NEW hd, NEW link, NEW back, Chained(s, hd, link, back)
    PROVE  /\ hd \in Pointers /\ (hd = NULL <=> s = << >>)
           /\ s # << >> => /\ 1 \in 1 .. Len(s) /\ Len(s) \in 1 .. Len(s) /\ hd = s[1]
                           /\ s[Len(s)] \in Members(s) /\ s[Len(s)] \in Elements
           /\ s \in Seq(Elements) /\ Len(s) \in Nat /\ Members(s) \subseteq Elements
<1>1. s \in Seq(Elements) /\ Len(s) \in Nat /\ DOMAIN s = 1 .. Len(s) /\ hd = First(s)
    BY DEF Chained
<1>2. \A n \in 1 .. Len(s) : s[n] \in Elements /\ s[n] \in Members(s) /\ s[n] # NULL
    BY <1>1, UthashAssumption DEF Members
<1>3. Members(s) \subseteq Elements
    BY <1>1, <1>2 DEF Members
<1>4. CASE s = << >>
    BY <1>1, <1>3, <1>4 DEF First, Pointers
<1>5. CASE s # << >>
  <2>1. 1 \in 1 .. Len(s) /\ Len(s) \in 1 .. Len(s)
      BY <1>1, <1>5
  <2>2. QED
      BY <1>1, <1>2, <1>3, <1>5, <2>1 DEF First, Pointers
<1>6. QED
    BY <1>4, <1>5

LEMMA AppendIs ==
    ASSUME NEW s \in Seq(Elements), NEW e \in Elements
    PROVE  /\ Append(s, e) \in Seq(Elements) /\ Len(Append(s, e)) = Len(s) + 1
           /\ Append(s, e)[Len(s) + 1] = e /\ Append(s, e) # << >> /\ Len(s) \in Nat
           /\ \A n \in 1 .. Len(s) : Append(s, e)[n] = s[n]
    OBVIOUS

Prepared(hd, t, e) ==
    [(IF hd = NULL THEN MakeTable(e) ELSE [t EXCEPT !.tail = e]) EXCEPT !.num_items = @ + 1]

Appending(f, t, h, e) ==
    [x \in Elements |->
        IF x = e THEN [h[e] EXCEPT !.next = NULL, !.prev = t.tail, !.hashv = f[KeyOf[e]]]
        ELSE IF x = t.tail THEN [h[x] EXCEPT !.next = e]
        ELSE h[x]]

LEMMA AppendingFields ==
    ASSUME NEW f, NEW t, NEW h \in [Elements -> UT_hash_handle], NEW e \in Elements,
           t.tail \in Pointers, f[KeyOf[e]] \in Nat
    PROVE  /\ Appending(f, t, h, e) \in [Elements -> UT_hash_handle]
           /\ \A x \in Elements :
                /\ Appending(f, t, h, e)[x].next = IF x = e THEN NULL ELSE IF x = t.tail THEN e ELSE h[x].next
                /\ Appending(f, t, h, e)[x].prev = IF x = e THEN t.tail ELSE h[x].prev
                /\ Appending(f, t, h, e)[x].hashv = IF x = e THEN f[KeyOf[e]] ELSE h[x].hashv
                /\ Appending(f, t, h, e)[x].hh_next = h[x].hh_next
                /\ Appending(f, t, h, e)[x].hh_prev = h[x].hh_prev
<1>1. PICK tl \in Pointers, hv \in Nat : tl = t.tail /\ hv = f[KeyOf[e]]
    OBVIOUS
<1>2. PICK h2 : h2 = Appending(f, t, h, e)
    OBVIOUS
<1>3. ASSUME NEW x \in Elements
      PROVE  /\ h2[x] \in UT_hash_handle
             /\ h2[x].next = IF x = e THEN NULL ELSE IF x = tl THEN e ELSE h[x].next
             /\ h2[x].prev = IF x = e THEN tl ELSE h[x].prev
             /\ h2[x].hashv = IF x = e THEN hv ELSE h[x].hashv
             /\ h2[x].hh_next = h[x].hh_next /\ h2[x].hh_prev = h[x].hh_prev
  <2>1. h2[x] = IF x = e THEN [h[e] EXCEPT !.next = NULL, !.prev = tl, !.hashv = hv]
                ELSE IF x = tl THEN [h[x] EXCEPT !.next = e] ELSE h[x]
      BY <1>1, <1>2 DEF Appending
  <2>2. h[x] \in UT_hash_handle /\ h[e] \in UT_hash_handle /\ NULL \in Pointers /\ e \in Pointers
      BY DEF Pointers
  <2>3. QED
      BY <2>1, <2>2 DEF UT_hash_handle
<1>4. h2 = [x \in Elements |-> h2[x]]
    BY <1>2 DEF Appending
<1>5. h2 \in [Elements -> UT_hash_handle]
    BY <1>3, <1>4
<1>6. QED
    BY <1>1, <1>2, <1>3, <1>5

NewTable(e) == [MakeTable(e) EXCEPT !.num_items = @ + 1]

LEMMA TableMade ==
    ASSUME NEW e \in Elements, NEW t, t = NewTable(e),
           NEW h \in [Elements -> UT_hash_handle]
    PROVE  /\ WholeBuckets(t, h, {}) /\ Bounded(t) /\ t.tail = e /\ t.num_items = 1
           /\ t.noexpand = 0 /\ t.ineff_expands = 0 /\ t.num_buckets = HASH_INITIAL_NUM_BUCKETS
<1>1. PICK nb \in Nat : nb = HASH_INITIAL_NUM_BUCKETS /\ nb # 0
    BY UthashAssumption
<1>2. PICK bkts : bkts = [b \in 0 .. nb - 1 |-> EmptyBucket]
    OBVIOUS
<1>3. EmptyBucket \in UT_hash_bucket
    BY DEF EmptyBucket, UT_hash_bucket, Pointers
<1>4. MakeTable(e) = [tail |-> e, num_buckets |-> nb, num_items |-> 0, ineff_expands |-> 0,
                      noexpand |-> 0, buckets |-> bkts]
  <2>1. MakeTable(e) = [NoTable EXCEPT !.tail = e, !.num_buckets = nb, !.buckets = bkts]
      BY <1>1, <1>2 DEF MakeTable
  <2>2. PICK none : none = << >>
      OBVIOUS
  <2>3. NoTable = [tail |-> NULL, num_buckets |-> 0, num_items |-> 0,
                   ineff_expands |-> 0, noexpand |-> 0, buckets |-> none]
      BY <2>2 DEF NoTable
  <2>4. QED
      BY <2>1, <2>3
<1>5. t = [tail |-> e, num_buckets |-> nb, num_items |-> 1, ineff_expands |-> 0,
           noexpand |-> 0, buckets |-> bkts]
    BY <1>4 DEF NewTable
<1>6. IsTable(t) /\ \A b \in 0 .. nb - 1 : t.buckets[b] = EmptyBucket
  <2>1. bkts \in [0 .. nb - 1 -> UT_hash_bucket] /\ e \in Pointers
      BY <1>2, <1>3 DEF Pointers
  <2>2. t.num_buckets = nb /\ t.buckets = bkts
      BY <1>5
  <2>3. t \in [tail : Pointers, num_buckets : Nat, num_items : Nat, ineff_expands : Nat,
               noexpand : {0, 1}, buckets : [0 .. nb - 1 -> UT_hash_bucket]]
    <3>1. PICK B : B = [0 .. nb - 1 -> UT_hash_bucket]
        OBVIOUS
    <3>2. bkts \in B /\ e \in Pointers /\ 0 \in Nat /\ 1 \in Nat /\ nb \in Nat
        BY <2>1, <3>1
    <3>3. [tail |-> e, num_buckets |-> nb, num_items |-> 1, ineff_expands |-> 0,
           noexpand |-> 0, buckets |-> bkts]
             \in [tail : Pointers, num_buckets : Nat, num_items : Nat, ineff_expands : Nat,
                  noexpand : {0, 1}, buckets : B]
        BY <3>2
    <3>4. QED
        BY <1>5, <3>1, <3>3
  <2>4. QED
      BY <1>2, <2>2, <2>3 DEF IsTable
<1>7. ASSUME NEW b \in 0 .. nb - 1
      PROVE  WholeBucket(t.buckets[b], h, InBucket(h, nb, {}, b))
  <2>1. InBucket(h, nb, {}, b) = {}
      BY DEF InBucket
  <2>2. Chained(<< >>, EmptyBucket.hh_head, HhNexts(h), HhPrevs(h))
      BY EmptyChain DEF EmptyBucket
  <2>3. Members(<< >>) = {} /\ EmptyBucket.count = Len(<< >>)
      BY NoMember DEF EmptyBucket
  <2>4. QED
      BY <1>6, <2>1, <2>2, <2>3 DEF WholeBucket
<1>8. WholeBuckets(t, h, {})
    BY <1>1, <1>5, <1>6, <1>7 DEF WholeBuckets
<1>9. Bounded(t)
  <2>1. EmptyBucket.count = 0 /\ EmptyBucket.expand_mult = 0
      BY DEF EmptyBucket
  <2>2. Capacity(EmptyBucket) \in Nat /\ Capacity(EmptyBucket) # 0
    <3>1. PICK T \in Nat : T = HASH_BKT_CAPACITY_THRESH /\ T # 0
        BY UthashAssumption
    <3>2. Capacity(EmptyBucket) = T * (0 + 1) /\ T * (0 + 1) = T
        BY <2>1, <3>1 DEF Capacity
    <3>3. QED
        BY <3>1, <3>2
  <2>3. Weight(EmptyBucket) = 0 /\ EmptyBucket.count <= Capacity(EmptyBucket)
      BY <2>1, <2>2 DEF Weight
  <2>4. PICK w : w = [n \in 0 .. nb |-> 0]
      OBVIOUS
  <2>5. \A b \in 0 .. nb - 1 : b \in 0 .. nb /\ b + 1 \in 0 .. nb
      BY <1>1
  <2>6. Weighs(w, t)
    <3>1. w \in [0 .. nb -> Nat] /\ w[0] = 0 /\ w[nb] <= nb
        BY <1>1, <2>4
    <3>2. \A b \in 0 .. nb - 1 : w[b] + Weight(t.buckets[b]) <= w[b + 1]
        BY <1>6, <2>3, <2>4, <2>5
    <3>3. QED
        BY <1>5, <3>1, <3>2 DEF Weighs
  <2>7. QED
      BY <1>5, <1>6, <2>3, <2>6 DEF Bounded
<1>10. QED
    BY <1>1, <1>5, <1>8, <1>9

LEMMA KeysHash ==
    ASSUME NEW f \in [Keys -> HashValues], NEW e \in Elements
    PROVE  f[KeyOf[e]] \in Nat
<1>1. KeyOf[e] \in Keys /\ HashValues \subseteq Nat
    BY UthashAssumption
<1>2. QED
    BY <1>1

LEMMA AddHolds ==
    ASSUME NEW f, NEW hd, NEW t, NEW h, NEW s, Holds(f, hd, t, h, s), NEW e \in Elements, e \notin Members(s),
           NEW t1, t1 = Prepared(hd, t, e), NEW h1, h1 = Appending(f, t, h, e),
           NEW X, X = AddToBkt(t1, h1, HASH_TO_BKT(f[KeyOf[e]], t1.num_buckets), e)
    PROVE  /\ Holds(f, IF hd = NULL THEN e ELSE hd, X.tbl, X.hh, Append(s, e))
           /\ Append(s, e) # << >>
<1>1. PICK hv \in Nat : hv = f[KeyOf[e]]
    BY KeysHash DEF Holds
<1>2. PICK S : S = Members(s)
    OBVIOUS
<1>3. /\ f \in [Keys -> HashValues] /\ h \in [Elements -> UT_hash_handle]
      /\ Chained(s, hd, Nexts(h), Prevs(h))
    BY DEF Holds
<1>4. /\ hd \in Pointers /\ (hd = NULL <=> s = << >>) /\ s \in Seq(Elements) /\ Len(s) \in Nat
      /\ s # << >> => /\ s[Len(s)] \in S /\ s[Len(s)] \in Elements
      /\ S \subseteq Elements
    BY <1>2, <1>3, HeadIs
<1>5. t.tail = (IF s = << >> THEN NULL ELSE s[Len(s)]) /\ t.tail \in Pointers
  <2>1. NoTable.tail = NULL
      BY DEF NoTable
  <2>2. QED
      BY <1>4, <2>1 DEF Holds, Pointers
<1>6. /\ h1 \in [Elements -> UT_hash_handle]
      /\ \A x \in Elements :
           /\ h1[x].next = IF x = e THEN NULL ELSE IF x = t.tail THEN e ELSE h[x].next
           /\ h1[x].prev = IF x = e THEN t.tail ELSE h[x].prev
           /\ h1[x].hashv = IF x = e THEN hv ELSE h[x].hashv
           /\ h1[x].hh_next = h[x].hh_next /\ h1[x].hh_prev = h[x].hh_prev
    BY <1>1, <1>3, <1>5, AppendingFields
<1>7. \A x \in S : x # e /\ x # NULL /\ x \in Elements
    BY <1>2, <1>4, UthashAssumption
<1>8. /\ WholeBuckets(t1, h1, S) /\ Bounded(t1) /\ t1.tail = e /\ t1.num_items = Len(s) + 1
      /\ t1.noexpand = 1 <=> t1.ineff_expands > 1
  <2>1. CASE s = << >>
    <3>1. t1 = NewTable(e)
        BY <1>4, <2>1 DEF Prepared, NewTable
    <3>2. S = {} /\ Len(s) = 0
        BY <1>2, <2>1, NoMember
    <3>3. WholeBuckets(t1, h1, {}) /\ Bounded(t1) /\ t1.tail = e /\ t1.num_items = 1
          /\ t1.noexpand = 0 /\ t1.ineff_expands = 0
        BY <1>6, <3>1, TableMade
    <3>4. QED
        BY <3>2, <3>3
  <2>2. CASE s # << >>
    <3>1. WholeBuckets(t, h, S) /\ Bounded(t) /\ t.num_items = Len(s)
          /\ (t.noexpand = 1 <=> t.ineff_expands > 1)
        BY <1>2, <2>2 DEF Holds
    <3>2. IsTable(t)
        BY <3>1 DEF WholeBuckets
    <3>3. t1 = [[t EXCEPT !.tail = e] EXCEPT !.num_items = @ + 1]
        BY <1>4, <2>2 DEF Prepared
    <3>4. /\ t1.tail = e /\ t1.num_items = Len(s) + 1 /\ t1.num_buckets = t.num_buckets
          /\ t1.noexpand = t.noexpand /\ t1.ineff_expands = t.ineff_expands
          /\ t1.buckets = t.buckets
          /\ t1 = [tail |-> e, num_buckets |-> t.num_buckets, num_items |-> Len(s) + 1,
                   ineff_expands |-> t.ineff_expands, noexpand |-> t.noexpand,
                   buckets |-> t.buckets]
        BY <3>1, <3>2, <3>3 DEF IsTable
    <3>5. IsTable(t1)
        BY <1>4, <3>2, <3>4 DEF IsTable, Pointers
    <3>6. \A x \in S : /\ h1[x].hh_next = h[x].hh_next /\ h1[x].hh_prev = h[x].hh_prev
                       /\ h1[x].hashv = h[x].hashv
        BY <1>6, <1>7
    <3>7. WholeBuckets(t1, h1, S)
        BY <1>6, <3>1, <3>4, <3>5, <3>6, BucketsKept
    <3>8. \A b \in 0 .. t.num_buckets - 1 : t.buckets[b].count \in Nat
        BY <3>2 DEF IsTable, UT_hash_bucket
    <3>9. \A b \in 0 .. t.num_buckets - 1 :
             /\ t1.buckets[b].expand_mult = t.buckets[b].expand_mult
             /\ t1.buckets[b].count <= t.buckets[b].count
        BY <3>4, <3>8
    <3>10. Bounded(t1)
        BY <3>1, <3>2, <3>4, <3>5, <3>9, BoundKept
    <3>11. QED
        BY <3>1, <3>4, <3>7, <3>10
  <2>3. QED
      BY <2>1, <2>2
<1>9. /\ Append(s, e) \in Seq(Elements) /\ Len(Append(s, e)) = Len(s) + 1
      /\ Append(s, e)[Len(s) + 1] = e /\ Append(s, e) # << >>
    BY <1>4, AppendIs
<1>10. PICK U : U = S \cup {e} /\ Members(Append(s, e)) = U
  <2>1. Members(Append(s, e)) = Members(s) \cup {e}
    <3>1. Members(Append(s, e)) \subseteq Members(s) \cup {e}
      <4>1. SUFFICES ASSUME NEW n \in 1 .. Len(s) + 1
                     PROVE  Append(s, e)[n] \in Members(s) \cup {e}
          BY <1>9 DEF Members
      <4>2. n = Len(s) + 1 \/ (n \in 1 .. Len(s) /\ Append(s, e)[n] = s[n])
          BY <1>4
      <4>3. QED
          BY <1>4, <1>9, <4>2 DEF Members
    <3>2. e \in Members(Append(s, e))
      <4>1. Len(s) + 1 \in DOMAIN Append(s, e)
          BY <1>4, <1>9
      <4>2. QED
          BY <1>9, <4>1 DEF Members
    <3>3. ASSUME NEW n \in 1 .. Len(s)
          PROVE  s[n] \in Members(Append(s, e))
      <4>1. n \in DOMAIN Append(s, e) /\ Append(s, e)[n] = s[n]
          BY <1>4, <1>9
      <4>2. QED
          BY <4>1 DEF Members
    <3>4. DOMAIN s = 1 .. Len(s)
        BY <1>4
    <3>5. Members(s) \subseteq Members(Append(s, e))
        BY <3>3, <3>4 DEF Members
    <3>6. QED
        BY <3>1, <3>2, <3>5
  <2>2. QED
      BY <1>2, <2>1
<1>11. Len(s) + 1 = Cardinality(U)
  <2>1. Once(s) /\ IsFiniteSet(S) /\ Cardinality(S) = Len(s)
      BY <1>2, <1>3, OnceLength DEF Chained
  <2>2. e \notin S
      BY <1>2
  <2>3. QED
      BY <1>10, <2>1, <2>2, FS_AddElement
<1>12. h1[e].hashv = hv
    BY <1>6
<1>13. PICK t2, h2 : t2 = X.tbl /\ h2 = X.hh
    OBVIOUS
<1>14. /\ WholeBuckets(t2, h2, U) /\ Bounded(t2)
       /\ t2.num_items = t1.num_items /\ t2.tail = t1.tail
       /\ (t2.noexpand = 1 <=> t2.ineff_expands > 1)
       /\ \A x \in Elements : /\ h2[x].next = h1[x].next /\ h2[x].prev = h1[x].prev
                              /\ h2[x].hashv = h1[x].hashv
  <2>1. PICK b : b = HASH_TO_BKT(h1[e].hashv, t1.num_buckets)
      OBVIOUS
  <2>2. X = AddToBkt(t1, h1, b, e)
      BY <1>1, <1>12, <2>1
  <2>3. e \notin S /\ t1.num_items = Cardinality(S \cup {e})
      BY <1>2, <1>8, <1>10, <1>11
  <2>4. U = S \cup {e} /\ t2 = AddToBkt(t1, h1, b, e).tbl /\ h2 = AddToBkt(t1, h1, b, e).hh
      BY <1>10, <1>13, <2>2
  <2>5. Addable(t1, h1, S, e, b)
      BY <1>8, <2>1, <2>3 DEF Addable
  <2>6. QED
      BY <2>4, <2>5, AddedToBkt
<1>15. h2 \in [Elements -> UT_hash_handle]
    BY <1>14 DEF WholeBuckets
<1>16. Chained(Append(s, e), IF hd = NULL THEN e ELSE hd, Nexts(h2), Prevs(h2))
  <2>1. /\ Nexts(h2)[e] = NULL /\ Prevs(h2)[e] = IF s = << >> THEN NULL ELSE s[Len(s)]
      BY <1>5, <1>6, <1>14, HandleLinks
  <2>2. s # << >> => /\ Nexts(h2)[s[Len(s)]] = e
                     /\ Prevs(h2)[s[Len(s)]] = Prevs(h)[s[Len(s)]]
      BY <1>4, <1>5, <1>6, <1>7, <1>14, HandleLinks
  <2>3. \A y \in Members(s) : s # << >> /\ y # s[Len(s)] =>
           Nexts(h2)[y] = Nexts(h)[y] /\ Prevs(h2)[y] = Prevs(h)[y]
      BY <1>2, <1>5, <1>6, <1>7, <1>14, HandleLinks
  <2>4. PICK hd2 : hd2 = IF s = << >> THEN e ELSE hd
      OBVIOUS
  <2>5. Chained(Append(s, e), hd2, Nexts(h2), Prevs(h2))
    <3>1. Appends(s, Nexts(h), Prevs(h), e, Nexts(h2), Prevs(h2))
        BY <2>1, <2>2, <2>3 DEF Appends
    <3>2. QED
        BY <1>3, <2>4, <3>1, Appended
  <2>6. QED
      BY <1>4, <2>4, <2>5
<1>17. \A x \in U : h2[x].hashv = f[KeyOf[x]]
  <2>1. \A x \in S : s # << >> /\ h[x].hashv = f[KeyOf[x]]
    <3>1. s = << >> => S = {}
        BY <1>2, NoMember
    <3>2. QED
        BY <1>2, <3>1 DEF Holds
  <2>2. QED
      BY <1>1, <1>6, <1>7, <1>10, <1>14, <2>1
<1>18. t2.tail = Append(s, e)[Len(Append(s, e))] /\ t2.num_items = Len(Append(s, e))
    BY <1>8, <1>9, <1>14
<1>19. Holds(f, IF hd = NULL THEN e ELSE hd, t2, h2, Append(s, e))
    BY <1>3, <1>9, <1>10, <1>14, <1>15, <1>16, <1>17, <1>18 DEF Holds
<1>20. QED
    BY <1>9, <1>13, <1>19

LEMMA EmptyHolds ==
    ASSUME NEW f \in [Keys -> HashValues], NEW h \in [Elements -> UT_hash_handle]
    PROVE  Holds(f, NULL, NoTable, h, << >>)
    BY EmptyChain DEF Holds

LEMMA CountIsPositive ==
    ASSUME NEW t, NEW h, NEW S, WholeBuckets(t, h, S), NEW e \in S, NEW b,
           b = HASH_TO_BKT(h[e].hashv, t.num_buckets)
    PROVE  b \in 0 .. t.num_buckets - 1 /\ t.buckets[b].count # 0
<1>1. /\ t.num_buckets \in Nat /\ t.num_buckets # 0 /\ h[e].hashv \in Nat /\ e \in Elements
    BY DEF WholeBuckets, IsTable, UT_hash_handle
<1>2. b \in 0 .. t.num_buckets - 1
    BY <1>1, BucketExists
<1>3. PICK c : /\ c = BucketChain(t, h, b) /\ Members(c) = InBucket(h, t.num_buckets, S, b)
               /\ t.buckets[b].count = Len(c) /\ c \in Seq(Elements)
    BY <1>2, BucketChainIs DEF Chained
<1>4. e \in Members(c)
    BY <1>3 DEF InBucket
<1>5. PICK n \in 1 .. Len(c) : c[n] = e
    BY <1>3, <1>4 DEF Members
<1>6. Len(c) # 0
    BY <1>3, <1>5
<1>7. QED
    BY <1>2, <1>3, <1>6

LEMMA DeleteHolds ==
    ASSUME NEW f, NEW hd, NEW t, NEW h, NEW s, Holds(f, hd, t, h, s), NEW i \in 1 .. Len(s), NEW e, e = s[i],
           ~(h[e].prev = NULL /\ h[e].next = NULL),
           NEW hd2, hd2 = IF h[e].prev = NULL THEN h[e].next ELSE hd
    PROVE  Holds(f, hd2, Uncounted(t, h, e), Patched(h, e), Without(s, i))
<1>1. PICK S, u, t2, h2, L : /\ S = Members(s) /\ u = Without(s, i) /\ L = Len(s)
                             /\ t2 = Uncounted(t, h, e) /\ h2 = Patched(h, e)
    OBVIOUS
<1>2. /\ f \in [Keys -> HashValues] /\ h \in [Elements -> UT_hash_handle]
      /\ Chained(s, hd, Nexts(h), Prevs(h))
    BY DEF Holds
<1>3. /\ s \in Seq(Elements) /\ L \in Nat /\ S \subseteq Elements /\ Once(s) /\ DOMAIN s = 1 .. L
      /\ i \in 1 .. L /\ e \in S /\ e \in Elements /\ e # NULL
  <2>a. Once(s)
      BY <1>2 DEF Chained
  <2>b. s \in Seq(Elements) /\ Len(s) \in Nat /\ Members(s) \subseteq Elements
      BY <1>2, HeadIs
  <2>1. s \in Seq(Elements) /\ L \in Nat /\ S \subseteq Elements /\ Once(s)
      BY <1>1, <2>a, <2>b
  <2>2. i \in DOMAIN s /\ DOMAIN s = 1 .. L
      BY <1>1, <2>1
  <2>3. e \in S
      BY <1>1, <2>2 DEF Members
  <2>4. QED
      BY <1>1, <2>1, <2>2, <2>3, UthashAssumption
<1>4. s # << >>
  <2>1. L # 0
      BY <1>3
  <2>2. QED
      BY <1>1, <2>1
<1>5. /\ hd = s[1] /\ 1 \in 1 .. L /\ t.tail = s[L] /\ t.num_items = L /\ L # 0
      /\ WholeBuckets(t, h, S) /\ Bounded(t)
      /\ (t.noexpand = 1 <=> t.ineff_expands > 1)
      /\ \A x \in S : h[x].hashv = f[KeyOf[x]]
  <2>1. hd = s[1] /\ 1 \in 1 .. L
      BY <1>1, <1>2, <1>4, HeadIs
  <2>2. L # 0
      BY <1>3
  <2>3. QED
      BY <1>1, <1>4, <2>1, <2>2 DEF Holds
<1>6. /\ h[e].next = (IF i = L THEN NULL ELSE s[i + 1]) /\ h[e].prev = (IF i = 1 THEN NULL ELSE s[i - 1])
      /\ Nexts(h)[e] = h[e].next /\ Prevs(h)[e] = h[e].prev
  <2>1. Nexts(h)[s[i]] = Link(s, i) /\ Prevs(h)[s[i]] = BackLink(s, i)
      BY <1>2 DEF Chained
  <2>2. Nexts(h)[e] = h[e].next /\ Prevs(h)[e] = h[e].prev
      BY <1>3, HandleLinks
  <2>3. QED
      BY <1>1, <2>1, <2>2 DEF Link, BackLink
<1>7. \A n \in 1 .. L : s[n] = e => n = i
    BY <1>3 DEF Once
<1>8. i # 1 => (i - 1 \in 1 .. L /\ s[i - 1] # NULL)
  <2>1. i # 1 => i - 1 \in 1 .. L
      BY <1>3
  <2>2. \A n \in 1 .. L : s[n] # NULL
      BY <1>3, UthashAssumption
  <2>3. QED
      BY <2>1, <2>2
<1>9. L # 1
  <2>1. CASE L = 1
    <3>1. i = 1 /\ i = L
        BY <1>3, <2>1
    <3>2. QED
        BY <1>6, <3>1
  <2>2. QED
      BY <2>1
<1>10. hd = e <=> i = 1
    BY <1>1, <1>5, <1>7
<1>11. h[e].prev = NULL <=> i = 1
    BY <1>6, <1>8
<1>12. /\ u \in Seq(Elements) /\ Len(u) = L - 1 /\ Members(u) = S \ {e}
       /\ \A n \in 1 .. L - 1 : u[n] = IF n < i THEN s[n] ELSE s[n + 1]
    BY <1>1, <1>3, WithoutOne DEF Without
<1>13. L - 1 \in 1 .. L - 1 /\ (L - 1) + 1 = L /\ u # << >>
  <2>1. L - 1 \in 1 .. L - 1 /\ (L - 1) + 1 = L /\ L - 1 # 0
      BY <1>3, <1>5, <1>9
  <2>2. Len(<< >>) = 0
      OBVIOUS
  <2>3. QED
      BY <1>12, <2>1, <2>2
<1>14. /\ h2 \in [Elements -> UT_hash_handle]
       /\ \A x \in Elements :
            /\ h2[x].hashv = h[x].hashv
            /\ h2[x].next = IF x = h[e].prev THEN h[e].next ELSE h[x].next
            /\ h2[x].prev = IF x = h[e].next THEN h[e].prev ELSE h[x].prev
    BY <1>1, <1>2, <1>3, PatchedFields
<1>15. Chained(u, hd2, Nexts(h2), Prevs(h2))
  <2>1. \A y \in Members(s) :
           /\ Nexts(h2)[y] = IF y = Prevs(h)[s[i]] THEN Nexts(h)[s[i]] ELSE Nexts(h)[y]
           /\ Prevs(h2)[y] = IF y = Nexts(h)[s[i]] THEN Prevs(h)[s[i]] ELSE Prevs(h)[y]
      BY <1>1, <1>3, <1>6, <1>14, HandleLinks
  <2>2. PICK l, bk, l2, bk2 : l = Nexts(h) /\ bk = Prevs(h) /\ l2 = Nexts(h2) /\ bk2 = Prevs(h2)
      OBVIOUS
  <2>3. Chained(s, hd, l, bk)
      BY <1>2, <2>2
  <2>4. \A y \in Members(s) :
           /\ l2[y] = IF y = bk[s[i]] THEN l[s[i]] ELSE l[y]
           /\ bk2[y] = IF y = l[s[i]] THEN bk[s[i]] ELSE bk[y]
      BY <2>1, <2>2
  <2>5. Chained(Without(s, i), IF hd = s[i] THEN l[s[i]] ELSE hd, l2, bk2)
      BY <2>3, <2>4, Removed
  <2>6. hd2 = IF hd = s[i] THEN l[s[i]] ELSE hd
      BY <1>6, <1>10, <1>11, <2>2
  <2>7. QED
      BY <1>1, <2>2, <2>5, <2>6
<1>16. WholeBuckets(t2, h2, S \ {e})
    BY <1>1, <1>3, <1>5, BucketRemoved
<1>17. PICK b : b = HASH_TO_BKT(h[e].hashv, t.num_buckets)
    OBVIOUS
<1>18. b \in 0 .. t.num_buckets - 1 /\ t.buckets[b].count # 0
    BY <1>3, <1>5, <1>17, CountIsPositive
<1>19. IsTable(t) /\ t.num_buckets # 0 /\ t.num_items # 0
    BY <1>5 DEF WholeBuckets
<1>20. /\ IsTable(t2) /\ t2.num_buckets = t.num_buckets /\ t2.num_items = t.num_items - 1
       /\ t2.tail = (IF t.tail = e THEN h[e].prev ELSE t.tail)
       /\ t2.noexpand = t.noexpand /\ t2.ineff_expands = t.ineff_expands
       /\ t2.buckets[b].count = t.buckets[b].count - 1
       /\ t2.buckets[b].expand_mult = t.buckets[b].expand_mult
       /\ \A c \in 0 .. t.num_buckets - 1 : c # b => t2.buckets[c] = t.buckets[c]
  <2>1. PICK fst : fst = IF t.buckets[b].hh_head = e THEN h[e].hh_next ELSE t.buckets[b].hh_head
      OBVIOUS
  <2>2. /\ IsTable(t2) /\ t2.num_buckets = t.num_buckets /\ t2.num_items = t.num_items - 1
        /\ t2.tail = (IF t.tail = e THEN h[e].prev ELSE t.tail)
        /\ t2.noexpand = t.noexpand /\ t2.ineff_expands = t.ineff_expands
        /\ t2.buckets[b] = [hh_head |-> fst, count |-> t.buckets[b].count - 1,
                            expand_mult |-> t.buckets[b].expand_mult]
        /\ \A c \in 0 .. t.num_buckets - 1 : c # b => t2.buckets[c] = t.buckets[c]
      BY <1>1, <1>2, <1>3, <1>17, <1>18, <1>19, <2>1, UncountedFields
  <2>3. QED
      BY <2>2
<1>21. Bounded(t2)
  <2>1. ASSUME NEW c \in 0 .. t.num_buckets - 1
        PROVE  /\ t2.buckets[c].expand_mult = t.buckets[c].expand_mult
               /\ t2.buckets[c].count <= t.buckets[c].count
    <3>1. t.buckets[c].count \in Nat
        BY <1>19 DEF IsTable, UT_hash_bucket
    <3>2. CASE c = b
        BY <1>20, <3>1, <3>2
    <3>3. CASE c # b
        BY <1>20, <3>1, <3>3
    <3>4. QED
        BY <3>2, <3>3
  <2>2. QED
      BY <1>5, <1>19, <1>20, <2>1, BoundKept
<1>22. t2.tail = u[L - 1]
  <2>1. CASE i = L
    <3>1. u[L - 1] = s[L - 1] /\ i # 1 /\ t.tail = e
      <4>1. L - 1 < i /\ i # 1
          BY <1>3, <1>9, <2>1
      <4>2. QED
          BY <1>1, <1>5, <1>12, <1>13, <2>1, <4>1
    <3>2. QED
        BY <1>6, <1>20, <2>1, <3>1
  <2>2. CASE i # L
    <3>1. ~(L - 1 < i) /\ L \in 1 .. L
        BY <1>3, <2>2
    <3>2. u[L - 1] = s[L]
        BY <1>12, <1>13, <3>1
    <3>3. t.tail # e
        BY <1>5, <1>7, <2>2, <3>1
    <3>4. QED
        BY <1>5, <1>20, <3>2, <3>3
  <2>3. QED
      BY <2>1, <2>2
<1>23. \A x \in S \ {e} : h2[x].hashv = f[KeyOf[x]]
    BY <1>3, <1>5, <1>14
<1>24. Holds(f, hd2, t2, h2, u)
    BY <1>2, <1>5, <1>12, <1>13, <1>14, <1>15, <1>16, <1>20, <1>21, <1>22, <1>23 DEF Holds
<1>25. QED
    BY <1>1, <1>24

LEMMA AloneHolds ==
    ASSUME NEW f, NEW hd, NEW t, NEW h, NEW s, Holds(f, hd, t, h, s), NEW i \in 1 .. Len(s), NEW e, e = s[i],
           h[e].prev = NULL, h[e].next = NULL
    PROVE  Without(s, i) = << >>
<1>1. /\ s \in Seq(Elements) /\ Len(s) \in Nat /\ \A n \in 1 .. Len(s) : s[n] \in Elements /\ s[n] # NULL
    BY UthashAssumption DEF Holds, Chained
<1>2. Nexts(h)[s[i]] = Link(s, i) /\ Prevs(h)[s[i]] = BackLink(s, i)
    BY DEF Holds, Chained
<1>3. Link(s, i) = NULL /\ BackLink(s, i) = NULL
    BY <1>1, <1>2, HandleLinks
<1>4. i = Len(s)
  <2>1. i # Len(s) => i + 1 \in 1 .. Len(s)
      BY <1>1
  <2>2. QED
      BY <1>1, <1>3, <2>1 DEF Link
<1>5. i = 1
  <2>1. i # 1 => i - 1 \in 1 .. Len(s)
      BY <1>1
  <2>2. QED
      BY <1>1, <1>3, <2>1 DEF BackLink
<1>6. Once(s)
    BY DEF Holds, Chained
<1>7. Without(s, i) \in Seq(Elements) /\ Len(Without(s, i)) = Len(s) - 1
    BY <1>1, <1>6, WithoutOne
<1>8. Len(Without(s, i)) = 0
    BY <1>4, <1>5, <1>7
<1>9. QED
    BY <1>7, <1>8

-----------------------------------------------------------------------------
(* HASH_SORT.  x comes before y in a stable sort: pos is where they were. *)

Before(rank, pos, x, y) == rank[x] < rank[y] \/ (rank[x] = rank[y] /\ pos[x] < pos[y])

InOrder(rank, pos, s) == \A m, n \in DOMAIN s : m < n => Before(rank, pos, s[m], s[n])

Orders == [Elements -> Int]

LEMMA BeforeIs ==
    ASSUME NEW rank \in Orders, NEW pos \in Orders, NEW x \in Elements, NEW y \in Elements
    PROVE  /\ Before(rank, pos, x, y) => x # y /\ rank[x] <= rank[y]
           /\ rank[x] < rank[y] => Before(rank, pos, x, y)
           /\ rank[x] <= rank[y] /\ pos[x] < pos[y] => Before(rank, pos, x, y)
           /\ \A z \in Elements : /\ Before(rank, pos, x, y) /\ Before(rank, pos, y, z) => Before(rank, pos, x, z)
                                  /\ rank[x] < rank[y] /\ Before(rank, pos, y, z) => Before(rank, pos, x, z)
<1>1. \A z \in Elements : rank[z] \in Int /\ pos[z] \in Int
    BY DEF Orders
<1>2. QED
    BY <1>1 DEF Before

Rest(s, i) == {s[k] : k \in i + 1 .. Len(s)}

LEMMA RestIs ==
    ASSUME NEW s \in Seq(Elements), NEW i \in 0 .. Len(s)
    PROVE  /\ Rest(s, i) \subseteq Elements
           /\ i = Len(s) => Rest(s, i) = {}
           /\ i # Len(s) => /\ i + 1 \in 1 .. Len(s) /\ s[i + 1] \in Elements
                            /\ Rest(s, i) = {s[i + 1]} \cup Rest(s, i + 1)
<1>1. Len(s) \in Nat /\ \A k \in 1 .. Len(s) : s[k] \in Elements
    OBVIOUS
<1>2. \A k \in i + 1 .. Len(s) : k \in 1 .. Len(s)
    BY <1>1
<1>3. i = Len(s) => i + 1 .. Len(s) = {}
    BY <1>1
<1>4. i # Len(s) => i + 1 \in 1 .. Len(s) /\ i + 1 .. Len(s) = {i + 1} \cup ((i + 1) + 1 .. Len(s))
    BY <1>1
<1>5. i # Len(s) => Rest(s, i) = {s[i + 1]} \cup Rest(s, i + 1)
    BY <1>4 DEF Rest
<1>6. QED
    BY <1>1, <1>2, <1>3, <1>4, <1>5 DEF Rest

(* The elements from lo + 1 to hi. *)
Piece(s, lo, hi) == SubSeq(s, lo + 1, hi)

LEMMA PieceIs ==
    ASSUME NEW s \in Seq(Elements), NEW lo \in Nat, NEW hi \in 0 .. Len(s)
    PROVE  /\ Piece(s, lo, hi) \in Seq(Elements)
           /\ Len(Piece(s, lo, hi)) = IF lo <= hi THEN hi - lo ELSE 0
           /\ \A k \in 1 .. hi - lo : Piece(s, lo, hi)[k] = s[lo + k]
<1>1. PICK a : a = lo + 1
    OBVIOUS
<1>2. a \in Int /\ hi \in Int /\ Len(s) \in Nat /\ \A k \in a .. hi : k \in 1 .. Len(s)
    BY <1>1
<1>3. \A k \in a .. hi : s[k] \in Elements
    BY <1>2
<1>4. /\ SubSeq(s, a, hi) \in Seq(Elements) /\ Len(SubSeq(s, a, hi)) = IF a <= hi THEN hi - a + 1 ELSE 0
      /\ \A k \in 1 .. hi - a + 1 : SubSeq(s, a, hi)[k] = s[a + k - 1]
    BY <1>2, <1>3, SubSeqProperties
<1>5. /\ (IF a <= hi THEN hi - a + 1 ELSE 0) = IF lo <= hi THEN hi - lo ELSE 0
      /\ \A k \in 1 .. hi - lo : k \in 1 .. hi - a + 1 /\ a + k - 1 = lo + k
    BY <1>1, <1>2
<1>6. Piece(s, lo, hi) = SubSeq(s, a, hi)
    BY <1>1 DEF Piece
<1>7. QED
    BY <1>4, <1>5, <1>6

(* What is left of s after i elements, as a sequence. *)
LeftOver(s, i) == SubSeq(s, i + 1, Len(s))

LEMMA LeftOverIs ==
    ASSUME NEW rank, NEW pos,
           NEW s \in Seq(Elements), InOrder(rank, pos, s), NEW i \in 0 .. Len(s)
    PROVE  /\ LeftOver(s, i) \in Seq(Elements) /\ Len(LeftOver(s, i)) = Len(s) - i
           /\ Members(LeftOver(s, i)) = Rest(s, i) /\ InOrder(rank, pos, LeftOver(s, i))
<1>0. PICK u : u = LeftOver(s, i)
    OBVIOUS
<1>1. PICK L \in Nat : L = Len(s) /\ DOMAIN s = 1 .. L /\ \A k \in 1 .. L : s[k] \in Elements
    OBVIOUS
<1>2. i \in Nat /\ L \in 0 .. Len(s) /\ i <= L /\ u = Piece(s, i, L)
    BY <1>0, <1>1 DEF LeftOver, Piece
<1>4. u \in Seq(Elements) /\ Len(u) = L - i /\ \A k \in 1 .. L - i : u[k] = s[i + k]
    BY <1>2, PieceIs
<1>5. Len(u) = L - i /\ DOMAIN u = 1 .. L - i
    BY <1>1, <1>4
<1>7. \A k \in 1 .. L - i : u[k] = s[i + k]
    BY <1>4
<1>8. Members(u) = Rest(s, i)
  <2>1. \A k \in 1 .. L - i : i + k \in i + 1 .. L
      BY <1>1
  <2>2. \A k \in i + 1 .. L : k - i \in 1 .. L - i /\ i + (k - i) = k
      BY <1>1
  <2>3. Members(u) \subseteq Rest(s, i)
      BY <1>1, <1>5, <1>7, <2>1 DEF Members, Rest
  <2>4. ASSUME NEW k \in i + 1 .. L
        PROVE  s[k] \in Members(u)
    <3>1. PICK j : j = k - i
        OBVIOUS
    <3>2. j \in 1 .. L - i /\ i + j = k
        BY <2>2, <3>1
    <3>3. QED
        BY <1>5, <1>7, <3>2 DEF Members
  <2>5. QED
      BY <1>1, <2>3, <2>4 DEF Rest
<1>9. InOrder(rank, pos, u)
  <2>1. SUFFICES ASSUME NEW m \in 1 .. L - i, NEW n \in 1 .. L - i, m < n
                 PROVE  Before(rank, pos, u[m], u[n])
      BY <1>5 DEF InOrder
  <2>2. i + m \in 1 .. L /\ i + n \in 1 .. L /\ i + m < i + n
      BY <1>1, <2>1
  <2>3. Before(rank, pos, s[i + m], s[i + n])
      BY <1>1, <2>2 DEF InOrder
  <2>4. QED
      BY <1>7, <2>3
<1>10. QED
    BY <1>0, <1>1, <1>4, <1>5, <1>8, <1>9

LEMMA Ahead ==
    ASSUME NEW rank, NEW pos, NEW x \in Elements, NEW u \in Seq(Elements), InOrder(rank, pos, u),
           \A y \in Members(u) : Before(rank, pos, x, y)
    PROVE  /\ <<x>> \o u \in Seq(Elements) /\ Len(<<x>> \o u) = 1 + Len(u)
           /\ Members(<<x>> \o u) = {x} \cup Members(u) /\ InOrder(rank, pos, <<x>> \o u)
<1>1. PICK L \in Nat, v \in Seq(Elements) :
         /\ L = Len(u) /\ v = <<x>> \o u /\ Len(v) = 1 + L /\ DOMAIN v = 1 .. 1 + L /\ DOMAIN u = 1 .. L
         /\ v[1] = x /\ \A k \in 1 .. L : v[k + 1] = u[k]
  <2>1. <<x>> \in Seq(Elements) /\ Len(<<x>>) = 1 /\ <<x>>[1] = x
      OBVIOUS
  <2>2. <<x>> \o u \in Seq(Elements) /\ Len(<<x>> \o u) = 1 + Len(u) /\ Len(u) \in Nat
        /\ DOMAIN (<<x>> \o u) = 1 .. 1 + Len(u) /\ DOMAIN u = 1 .. Len(u)
      OBVIOUS
  <2>3. (<<x>> \o u)[1] = x /\ \A k \in 1 .. Len(u) : (<<x>> \o u)[k + 1] = u[k]
      OBVIOUS
  <2>4. QED
      BY <2>2, <2>3
<1>2. ASSUME NEW n \in 1 .. 1 + L
      PROVE  n = 1 \/ (n # 1 /\ \E k \in 1 .. L : n = k + 1 /\ v[n] = u[k] /\ v[n] \in Members(u))
  <2>1. CASE n # 1
    <3>1. PICK k : k = n - 1
        OBVIOUS
    <3>2. k \in 1 .. L /\ n = k + 1
        BY <2>1, <3>1
    <3>3. QED
        BY <1>1, <2>1, <3>2 DEF Members
  <2>2. QED
      BY <2>1
<1>3. Members(v) = {x} \cup Members(u)
  <2>1. Members(v) \subseteq {x} \cup Members(u)
      BY <1>1, <1>2 DEF Members
  <2>2. 1 \in 1 .. 1 + L /\ \A k \in 1 .. L : k + 1 \in 1 .. 1 + L
      OBVIOUS
  <2>3. x \in Members(v)
      BY <1>1, <2>2 DEF Members
  <2>4. Members(u) \subseteq Members(v)
    <3>1. SUFFICES ASSUME NEW k \in 1 .. L
                   PROVE  u[k] \in Members(v)
        BY <1>1 DEF Members
    <3>2. k + 1 \in DOMAIN v /\ v[k + 1] = u[k]
        BY <1>1, <2>2
    <3>3. QED
        BY <3>2 DEF Members
  <2>5. QED
      BY <2>1, <2>3, <2>4
<1>4. InOrder(rank, pos, v)
  <2>1. SUFFICES ASSUME NEW m \in 1 .. 1 + L, NEW n \in 1 .. 1 + L, m < n
                 PROVE  Before(rank, pos, v[m], v[n])
      BY <1>1 DEF InOrder
  <2>2. n # 1
      BY <2>1
  <2>3. PICK k \in 1 .. L : n = k + 1 /\ v[n] = u[k] /\ v[n] \in Members(u)
      BY <1>2, <2>2
  <2>4. CASE m = 1
      BY <1>1, <2>3, <2>4
  <2>5. CASE m # 1
    <3>1. PICK j \in 1 .. L : m = j + 1 /\ v[m] = u[j]
        BY <1>2, <2>5
    <3>2. j < k
        BY <2>1, <2>3, <3>1
    <3>3. QED
        BY <1>1, <2>3, <3>1, <3>2 DEF InOrder
  <2>6. QED
      BY <2>4, <2>5
<1>5. QED
    BY <1>1, <1>3, <1>4

MergeStep(rank, p, q, m, i, j) ==
    IF i = Len(p) THEN SubSeq(q, j + 1, Len(q))
    ELSE IF j = Len(q) THEN SubSeq(p, i + 1, Len(p))
    ELSE IF Stays(rank, p[i+1], q[j+1]) THEN <<p[i+1]>> \o m[<<i + 1, j>>]
    ELSE <<q[j+1]>> \o m[<<i, j + 1>>]

IsMerge(rank, p, q, m) ==
    m = [at \in (0 .. Len(p)) \X (0 .. Len(q)) |-> MergeStep(rank, p, q, m, at[1], at[2])]

LEMMA MergeExists ==
    ASSUME NEW rank, NEW p, NEW q, Len(p) \in Nat, Len(q) \in Nat
    PROVE  \E m : IsMerge(rank, p, q, m)
<1>0. PICK A \in Nat, B \in Nat : A = Len(p) /\ B = Len(q)
    OBVIOUS
<1>1. PICK D : A = Len(p) /\ B = Len(q) /\ D = (0 .. A) \X (0 .. B)
    BY <1>0
<1> DEFINE N == A + B + 1
           Right(g, k) == \A i \in 0 .. A, j \in 0 .. B :
                             N <= i + j + k => g[<<i, j>>] = MergeStep(rank, p, q, g, i, j)
           S == {k \in Nat : \E g : g = [at \in D |-> g[at]] /\ Right(g, k)}
<1>2. 0 \in S
  <2>1. PICK g : g = [at \in D |-> << >>]
      OBVIOUS
  <2>2. g = [at \in D |-> g[at]]
      BY <2>1
  <2>3. \A i \in 0 .. A, j \in 0 .. B : ~(N <= i + j + 0)
      OBVIOUS
  <2>4. QED
      BY <2>2, <2>3
<1>3. ASSUME NEW k \in Nat, k \in S
      PROVE  k + 1 \in S
  <2>1. PICK g : g = [at \in D |-> g[at]] /\ Right(g, k)
      BY <1>3
  <2>2. PICK g2 : g2 = [at \in D |-> IF N <= at[1] + at[2] + k THEN g[at]
                                     ELSE MergeStep(rank, p, q, g, at[1], at[2])]
      OBVIOUS
  <2>3. ASSUME NEW i \in 0 .. A, NEW j \in 0 .. B
        PROVE  g2[<<i, j>>] = IF N <= i + j + k THEN g[<<i, j>>] ELSE MergeStep(rank, p, q, g, i, j)
    <3>0. PICK at : at = <<i, j>>
        OBVIOUS
    <3>1. at \in D /\ at[1] = i /\ at[2] = j
        BY <1>1, <3>0
    <3>2. g2[at] = IF N <= at[1] + at[2] + k THEN g[at] ELSE MergeStep(rank, p, q, g, at[1], at[2])
        BY <2>2, <3>1
    <3>3. QED
        BY <3>0, <3>1, <3>2
  <2>4. ASSUME NEW i \in 0 .. A, NEW j \in 0 .. B, N <= i + j + (k + 1)
        PROVE  g2[<<i, j>>] = MergeStep(rank, p, q, g2, i, j)
    <3>1. g2[<<i, j>>] = MergeStep(rank, p, q, g, i, j)
        BY <2>1, <2>3
    <3>2. i # A => i + 1 \in 0 .. A /\ N <= (i + 1) + j + k
        BY <2>4
    <3>3. j # B => j + 1 \in 0 .. B /\ N <= i + (j + 1) + k
        BY <2>4
    <3>4. i # A => g2[<<i + 1, j>>] = g[<<i + 1, j>>]
        BY <2>3, <3>2
    <3>5. j # B => g2[<<i, j + 1>>] = g[<<i, j + 1>>]
        BY <2>3, <3>3
    <3>6. MergeStep(rank, p, q, g2, i, j) = MergeStep(rank, p, q, g, i, j)
        BY <1>1, <3>4, <3>5 DEF MergeStep
    <3>7. QED
        BY <3>1, <3>6
  <2>5. g2 = [at \in D |-> g2[at]]
      BY <2>2
  <2>6. QED
      BY <2>4, <2>5
<1> HIDE DEF S
<1>4. N \in Nat /\ N \in S
    BY <1>2, <1>3, SetInduction
<1>5. PICK g : g = [at \in D |-> g[at]] /\ Right(g, N)
    BY <1>4 DEF S
<1>6. ASSUME NEW at \in D
      PROVE  g[at] = MergeStep(rank, p, q, g, at[1], at[2])
  <2>1. PICK i \in 0 .. A, j \in 0 .. B : at = <<i, j>> /\ at[1] = i /\ at[2] = j
      BY <1>1
  <2>2. N <= i + j + N
      OBVIOUS
  <2>3. g[<<i, j>>] = MergeStep(rank, p, q, g, i, j)
      BY <1>5, <2>2
  <2>4. QED
      BY <2>1, <2>3
<1>7. g = [at \in D |-> MergeStep(rank, p, q, g, at[1], at[2])]
    BY <1>5, <1>6
<1>8. QED
    BY <1>1, <1>7 DEF IsMerge

(* The merge of what is left of p and of q, sorted, is all of that, sorted. *)
Merges(rank, pos, p, q, i, j, u) ==
    /\ u \in Seq(Elements) /\ Len(u) = (Len(p) - i) + (Len(q) - j)
    /\ Members(u) = Rest(p, i) \cup Rest(q, j) /\ InOrder(rank, pos, u)

Mergeable(rank, pos, p, q) ==
    /\ rank \in Orders /\ pos \in Orders
    /\ p \in Seq(Elements) /\ InOrder(rank, pos, p)
    /\ q \in Seq(Elements) /\ InOrder(rank, pos, q)
    /\ \A x \in Rest(p, 0), y \in Rest(q, 0) : pos[x] < pos[y]

LEMMA RestAfter ==
    ASSUME NEW rank \in Orders, NEW pos \in Orders, NEW s \in Seq(Elements), InOrder(rank, pos, s),
           NEW i \in 0 .. Len(s), i # Len(s)
    PROVE  /\ \A y \in Rest(s, i + 1) : Before(rank, pos, s[i + 1], y)
           /\ \A y \in Rest(s, i) : rank[s[i + 1]] <= rank[y]
           /\ Rest(s, i) \subseteq Rest(s, 0)
<1>0. PICK L \in Nat : L = Len(s) /\ i \in 0 .. L /\ i # L
    OBVIOUS
<1>1. Len(s) \in Nat /\ DOMAIN s = 1 .. Len(s) /\ \A k \in 1 .. Len(s) : s[k] \in Elements
    OBVIOUS
<1>a. i + 1 \in 1 .. L /\ (\A k \in (i + 1) + 1 .. L : k \in 1 .. L /\ i + 1 < k)
      /\ (\A k \in i + 1 .. L : k \in 0 + 1 .. L)
  <2>1. i \in Nat /\ i < L
      BY <1>0
  <2>2. QED
      BY <2>1
<1>2. i + 1 \in 1 .. Len(s) /\ \A k \in (i + 1) + 1 .. Len(s) : k \in 1 .. Len(s) /\ i + 1 < k
    BY <1>0, <1>a
<1>3. \A k \in i + 1 .. Len(s) : k \in 0 + 1 .. Len(s)
    BY <1>0, <1>a
<1>4. Rest(s, i) \subseteq Rest(s, 0)
    BY <1>3 DEF Rest
<1>5. \A k \in (i + 1) + 1 .. Len(s) : Before(rank, pos, s[i + 1], s[k])
    BY <1>1, <1>2 DEF InOrder
<1>6. \A y \in Rest(s, i + 1) : Before(rank, pos, s[i + 1], y) /\ y \in Elements
    BY <1>1, <1>2, <1>5 DEF Rest
<1>7. Rest(s, i) = {s[i + 1]} \cup Rest(s, i + 1) /\ s[i + 1] \in Elements
    BY RestIs
<1>8. ASSUME NEW y \in Rest(s, i)
      PROVE  rank[s[i + 1]] <= rank[y]
  <2>1. CASE y = s[i + 1]
    <3>1. rank[y] \in Int
        BY <1>7, <2>1 DEF Orders
    <3>2. QED
        BY <2>1, <3>1
  <2>2. CASE y \in Rest(s, i + 1)
      BY <1>6, <1>7, <2>2, BeforeIs
  <2>3. QED
      BY <1>7, <2>1, <2>2
<1>9. QED
    BY <1>4, <1>6, <1>8

LEMMA MergeStepIs ==
    ASSUME NEW rank, NEW pos, NEW p, NEW q, Mergeable(rank, pos, p, q), NEW m,
           NEW i \in 0 .. Len(p), NEW j \in 0 .. Len(q),
           i # Len(p) => Merges(rank, pos, p, q, i + 1, j, m[<<i + 1, j>>]),
           j # Len(q) => Merges(rank, pos, p, q, i, j + 1, m[<<i, j + 1>>])
    PROVE  Merges(rank, pos, p, q, i, j, MergeStep(rank, p, q, m, i, j))
<1>1. /\ rank \in Orders /\ pos \in Orders /\ p \in Seq(Elements) /\ InOrder(rank, pos, p)
      /\ q \in Seq(Elements) /\ InOrder(rank, pos, q)
      /\ \A x \in Rest(p, 0), y \in Rest(q, 0) : pos[x] < pos[y]
      /\ Len(p) \in Nat /\ Len(q) \in Nat
    BY DEF Mergeable
<1>2. CASE i = Len(p)
  <2>1. PICK u : u = LeftOver(q, j)
      OBVIOUS
  <2>a. rank \in Orders /\ pos \in Orders /\ q \in Seq(Elements) /\ InOrder(rank, pos, q)
      BY <1>1
  <2>2. u \in Seq(Elements) /\ Len(u) = Len(q) - j /\ Members(u) = Rest(q, j) /\ InOrder(rank, pos, u)
      BY <2>1, <2>a, LeftOverIs
  <2>3. Rest(p, i) = {} /\ (Len(p) - i) + (Len(q) - j) = Len(q) - j
      BY <1>1, <1>2, RestIs
  <2>4. MergeStep(rank, p, q, m, i, j) = u
      BY <1>2, <2>1 DEF MergeStep, LeftOver
  <2>5. QED
      BY <2>2, <2>3, <2>4 DEF Merges
<1>3. CASE i # Len(p) /\ j = Len(q)
  <2>1. PICK u : u = LeftOver(p, i)
      OBVIOUS
  <2>a. rank \in Orders /\ pos \in Orders /\ p \in Seq(Elements) /\ InOrder(rank, pos, p)
      BY <1>1
  <2>2. u \in Seq(Elements) /\ Len(u) = Len(p) - i /\ Members(u) = Rest(p, i) /\ InOrder(rank, pos, u)
      BY <2>1, <2>a, LeftOverIs
  <2>3. Rest(q, j) = {} /\ (Len(p) - i) + (Len(q) - j) = Len(p) - i
      BY <1>1, <1>3, RestIs
  <2>4. MergeStep(rank, p, q, m, i, j) = u
      BY <1>3, <2>1 DEF MergeStep, LeftOver
  <2>5. QED
      BY <2>2, <2>3, <2>4 DEF Merges
<1>4. ASSUME i # Len(p), j # Len(q)
      PROVE  Merges(rank, pos, p, q, i, j, MergeStep(rank, p, q, m, i, j))
  <2>1. PICK x \in Elements, y \in Elements : x = p[i + 1] /\ y = q[j + 1]
      BY <1>1, <1>4, RestIs
  <2>2. /\ Rest(p, i) = {x} \cup Rest(p, i + 1) /\ Rest(q, j) = {y} \cup Rest(q, j + 1)
        /\ Rest(p, i) \subseteq Elements /\ Rest(q, j) \subseteq Elements
      BY <1>1, <1>4, <2>1, RestIs
  <2>3. /\ \A z \in Rest(p, i + 1) : Before(rank, pos, x, z)
        /\ \A z \in Rest(q, j + 1) : Before(rank, pos, y, z)
        /\ \A z \in Rest(p, i) : rank[x] <= rank[z]
        /\ \A z \in Rest(q, j) : rank[y] <= rank[z]
        /\ Rest(p, i) \subseteq Rest(p, 0) /\ Rest(q, j) \subseteq Rest(q, 0)
      BY <1>1, <1>4, <2>1, RestAfter
  <2>4. \A z \in Elements : rank[z] \in Int
      BY <1>1 DEF Orders
  <2>5. CASE rank[x] <= rank[y]
    <3>1. PICK u : u = m[<<i + 1, j>>]
        OBVIOUS
    <3>2. /\ u \in Seq(Elements) /\ Len(u) = (Len(p) - (i + 1)) + (Len(q) - j)
          /\ Members(u) = Rest(p, i + 1) \cup Rest(q, j) /\ InOrder(rank, pos, u)
        BY <1>4, <3>1 DEF Merges
    <3>3. ASSUME NEW z \in Rest(q, j)
          PROVE  Before(rank, pos, x, z)
      <4>1. rank[x] <= rank[z]
        <5>1. rank[y] <= rank[z] /\ rank[x] \in Int /\ rank[y] \in Int /\ rank[z] \in Int
            BY <2>2, <2>3, <2>4
        <5>2. QED
            BY <2>5, <5>1
      <4>2. pos[x] < pos[z]
          BY <1>1, <2>2, <2>3
      <4>3. QED
          BY <1>1, <2>2, <4>1, <4>2, BeforeIs
    <3>4. /\ <<x>> \o u \in Seq(Elements) /\ Len(<<x>> \o u) = 1 + Len(u)
          /\ Members(<<x>> \o u) = {x} \cup Members(u) /\ InOrder(rank, pos, <<x>> \o u)
        BY <2>3, <3>2, <3>3, Ahead
    <3>5. MergeStep(rank, p, q, m, i, j) = <<x>> \o u
        BY <1>4, <2>1, <2>5, <3>1 DEF MergeStep, Stays
    <3>6. Len(<<x>> \o u) = (Len(p) - i) + (Len(q) - j)
        BY <1>1, <3>2, <3>4
    <3>7. Members(<<x>> \o u) = Rest(p, i) \cup Rest(q, j)
        BY <2>2, <3>2, <3>4
    <3>8. QED
        BY <3>4, <3>5, <3>6, <3>7 DEF Merges
  <2>6. CASE ~(rank[x] <= rank[y])
    <3>1. PICK u : u = m[<<i, j + 1>>]
        OBVIOUS
    <3>2. /\ u \in Seq(Elements) /\ Len(u) = (Len(p) - i) + (Len(q) - (j + 1))
          /\ Members(u) = Rest(p, i) \cup Rest(q, j + 1) /\ InOrder(rank, pos, u)
        BY <1>4, <3>1 DEF Merges
    <3>3. ASSUME NEW z \in Rest(p, i)
          PROVE  Before(rank, pos, y, z)
      <4>1. rank[x] <= rank[z] /\ rank[x] \in Int /\ rank[y] \in Int /\ rank[z] \in Int
          BY <2>2, <2>3, <2>4
      <4>2. rank[y] < rank[z]
          BY <2>6, <4>1
      <4>3. QED
          BY <1>1, <2>2, <4>2, BeforeIs
    <3>4. /\ <<y>> \o u \in Seq(Elements) /\ Len(<<y>> \o u) = 1 + Len(u)
          /\ Members(<<y>> \o u) = {y} \cup Members(u) /\ InOrder(rank, pos, <<y>> \o u)
        BY <2>3, <3>2, <3>3, Ahead
    <3>5. MergeStep(rank, p, q, m, i, j) = <<y>> \o u
        BY <1>4, <2>1, <2>6, <3>1 DEF MergeStep, Stays
    <3>6. Len(<<y>> \o u) = (Len(p) - i) + (Len(q) - j)
        BY <1>1, <3>2, <3>4
    <3>7. Members(<<y>> \o u) = Rest(p, i) \cup Rest(q, j)
        BY <2>2, <3>2, <3>4
    <3>8. QED
        BY <3>4, <3>5, <3>6, <3>7 DEF Merges
  <2>7. QED
      BY <2>5, <2>6
<1>5. QED
    BY <1>2, <1>3, <1>4

LEMMA MergeIs ==
    ASSUME NEW rank, NEW pos, NEW p, NEW q, Mergeable(rank, pos, p, q)
    PROVE  Merges(rank, pos, p, q, 0, 0, Merge(rank, p, q))
<1>1. PICK A \in Nat, B \in Nat : A = Len(p) /\ B = Len(q)
    BY DEF Mergeable
<1>2. \E m : IsMerge(rank, p, q, m)
    BY <1>1, MergeExists
<1>3. PICK m : IsMerge(rank, p, q, m) /\ Merge(rank, p, q) = m[<<0, 0>>]
    BY <1>2 DEF Merge, IsMerge, MergeStep
<1>4. ASSUME NEW i \in 0 .. A, NEW j \in 0 .. B
      PROVE  m[<<i, j>>] = MergeStep(rank, p, q, m, i, j)
  <2>0. PICK at : at = <<i, j>>
      OBVIOUS
  <2>1. at \in (0 .. A) \X (0 .. B) /\ at[1] = i /\ at[2] = j
      BY <2>0
  <2>2. m[at] = MergeStep(rank, p, q, m, at[1], at[2])
      BY <1>1, <1>3, <2>1 DEF IsMerge
  <2>3. QED
      BY <2>0, <2>1, <2>2
<1> DEFINE N == A + B + 1
           S == {k \in Nat : \A i \in 0 .. A, j \in 0 .. B :
                                N <= i + j + k => Merges(rank, pos, p, q, i, j, m[<<i, j>>])}
<1>5. 0 \in S
  <2>1. \A i \in 0 .. A, j \in 0 .. B : ~(N <= i + j + 0)
      OBVIOUS
  <2>2. QED
      BY <2>1
<1>6. ASSUME NEW k \in Nat, k \in S
      PROVE  k + 1 \in S
  <2>1. SUFFICES ASSUME NEW i \in 0 .. A, NEW j \in 0 .. B, N <= i + j + (k + 1)
                 PROVE  Merges(rank, pos, p, q, i, j, m[<<i, j>>])
      OBVIOUS
  <2>2. i # A => Merges(rank, pos, p, q, i + 1, j, m[<<i + 1, j>>])
    <3>1. i # A => i + 1 \in 0 .. A /\ N <= (i + 1) + j + k
        BY <2>1
    <3>2. QED
        BY <1>6, <3>1
  <2>3. j # B => Merges(rank, pos, p, q, i, j + 1, m[<<i, j + 1>>])
    <3>1. j # B => j + 1 \in 0 .. B /\ N <= i + (j + 1) + k
        BY <2>1
    <3>2. QED
        BY <1>6, <3>1
  <2>4. Merges(rank, pos, p, q, i, j, MergeStep(rank, p, q, m, i, j))
      BY <1>1, <2>2, <2>3, MergeStepIs
  <2>5. QED
      BY <1>4, <2>4
<1> HIDE DEF S
<1>7. N \in Nat /\ N \in S
    BY <1>5, <1>6, SetInduction
<1>8. 0 \in 0 .. A /\ 0 \in 0 .. B /\ N <= 0 + 0 + N
    OBVIOUS
<1>9. Merges(rank, pos, p, q, 0, 0, m[<<0, 0>>])
    BY <1>7, <1>8 DEF S
<1>10. QED
    BY <1>3, <1>9

Least(m, n) == IF m < n THEN m ELSE n

(* The pieces of s after lo and mid, of which each is in order, and mid parts what was
   first from what was not. *)
TwoRuns(rank, pos, s, lo, mid, hi) ==
    /\ rank \in Orders /\ pos \in Orders /\ s \in Seq(Elements)
    /\ lo \in Nat /\ mid \in Nat /\ hi \in Nat /\ lo <= mid /\ mid <= hi /\ lo < Len(s)
    /\ \A m, n \in 1 .. Len(s) : /\ lo < m /\ m < n /\ n <= mid => Before(rank, pos, s[m], s[n])
                                 /\ mid < m /\ m < n /\ n <= hi => Before(rank, pos, s[m], s[n])
                                 /\ m <= mid /\ mid < n => pos[s[m]] < pos[s[n]]

RunInOrder(rank, pos, s, lo, hi) ==
    \A m, n \in 1 .. Len(s) : lo < m /\ m < n /\ n <= hi => Before(rank, pos, s[m], s[n])

IsRun(rank, pos, s, lo, hi, end, u) ==
    /\ u \in Seq(Elements) /\ InOrder(rank, pos, u)
    /\ Len(u) = IF lo <= end THEN end - lo ELSE 0
    /\ \A x \in Rest(u, 0) : \E k \in 1 .. Len(s) : lo < k /\ k <= hi /\ x = s[k]

LEMMA PieceInOrder ==
    ASSUME NEW rank, NEW pos, NEW s \in Seq(Elements), NEW lo \in Nat, NEW hi \in Nat,
           RunInOrder(rank, pos, s, lo, hi), NEW end \in 0 .. Len(s), end <= hi
    PROVE  IsRun(rank, pos, s, lo, hi, end, Piece(s, lo, end))
<1>1. PICK L \in Nat : L = Len(s) /\ end <= L /\ end \in Nat
    OBVIOUS
<1>2. PICK u : u = Piece(s, lo, end)
    OBVIOUS
<1>3. PICK N \in Nat : N = IF lo <= end THEN end - lo ELSE 0
  <2>1. (IF lo <= end THEN end - lo ELSE 0) \in Nat
      BY <1>1
  <2>2. QED
      BY <2>1
<1>4. u \in Seq(Elements) /\ Len(u) = N /\ \A k \in 1 .. end - lo : u[k] = s[lo + k]
    BY <1>2, <1>3, PieceIs
<1>5. \A k \in 1 .. N : k \in 1 .. end - lo /\ lo + k \in 1 .. L /\ lo < lo + k /\ lo + k <= hi
    BY <1>1, <1>3
<1>6. InOrder(rank, pos, u)
  <2>1. SUFFICES ASSUME NEW m \in 1 .. N, NEW n \in 1 .. N, m < n
                 PROVE  Before(rank, pos, u[m], u[n])
      BY <1>4 DEF InOrder
  <2>2. PICK a \in 1 .. L, b \in 1 .. L : a = lo + m /\ b = lo + n /\ a < b /\ lo < a /\ b <= hi
      BY <1>5, <2>1
  <2>3. u[m] = s[a] /\ u[n] = s[b]
      BY <1>4, <1>5, <2>2
  <2>4. QED
      BY <1>1, <2>2, <2>3 DEF RunInOrder
<1>7. ASSUME NEW x \in Rest(u, 0)
      PROVE  \E k \in 1 .. L : lo < k /\ k <= hi /\ x = s[k]
  <2>1. PICK n \in 0 + 1 .. N : x = u[n]
      BY <1>4 DEF Rest
  <2>2. n \in 1 .. N
      OBVIOUS
  <2>3. QED
      BY <1>4, <1>5, <2>1, <2>2
<1>8. QED
    BY <1>1, <1>2, <1>3, <1>4, <1>6, <1>7 DEF IsRun

LEMMA RunsMerged ==
    ASSUME NEW rank, NEW pos, NEW s, NEW lo, NEW mid, NEW hi, TwoRuns(rank, pos, s, lo, mid, hi),
           NEW u, u = Merge(rank, Piece(s, lo, Least(Len(s), mid)), Piece(s, mid, Least(Len(s), hi)))
    PROVE  /\ u \in Seq(Elements) /\ InOrder(rank, pos, u) /\ Len(u) = Least(Len(s), hi) - lo
           /\ \A n \in 1 .. Len(u) : \E k \in 1 .. Len(s) : lo < k /\ k <= hi /\ u[n] = s[k]
<1>1. /\ rank \in Orders /\ pos \in Orders /\ s \in Seq(Elements)
      /\ lo \in Nat /\ mid \in Nat /\ hi \in Nat /\ lo <= mid /\ mid <= hi /\ lo < Len(s)
    BY DEF TwoRuns
<1>a. PICK L \in Nat, a \in 0 .. Len(s), b \in 0 .. Len(s) :
         L = Len(s) /\ a = Least(L, mid) /\ b = Least(L, hi) /\ a <= mid /\ b <= hi
    BY <1>1 DEF Least
<1>2. PICK p, q : p = Piece(s, lo, a) /\ q = Piece(s, mid, b)
    OBVIOUS
<1>3. /\ p \in Seq(Elements) /\ InOrder(rank, pos, p)
      /\ Len(p) = IF lo <= a THEN a - lo ELSE 0
      /\ \A x \in Rest(p, 0) : \E k \in 1 .. Len(s) : lo < k /\ k <= mid /\ x = s[k]
  <2>1. RunInOrder(rank, pos, s, lo, mid)
      BY DEF TwoRuns, RunInOrder
  <2>2. s \in Seq(Elements) /\ lo \in Nat /\ mid \in Nat /\ a \in 0 .. Len(s) /\ a <= mid
      BY <1>1, <1>a
  <2>3. IsRun(rank, pos, s, lo, mid, a, Piece(s, lo, a))
      BY <2>1, <2>2, PieceInOrder
  <2>4. QED
      BY <1>2, <2>3 DEF IsRun
<1>4. /\ q \in Seq(Elements) /\ InOrder(rank, pos, q)
      /\ Len(q) = IF mid <= b THEN b - mid ELSE 0
      /\ \A x \in Rest(q, 0) : \E k \in 1 .. Len(s) : mid < k /\ k <= hi /\ x = s[k]
  <2>1. RunInOrder(rank, pos, s, mid, hi)
      BY DEF TwoRuns, RunInOrder
  <2>2. s \in Seq(Elements) /\ mid \in Nat /\ hi \in Nat /\ b \in 0 .. Len(s) /\ b <= hi
      BY <1>1, <1>a
  <2>3. IsRun(rank, pos, s, mid, hi, b, Piece(s, mid, b))
      BY <2>1, <2>2, PieceInOrder
  <2>4. QED
      BY <1>2, <2>3 DEF IsRun
<1>5. ASSUME NEW x \in Rest(p, 0), NEW y \in Rest(q, 0)
      PROVE  pos[x] < pos[y]
  <2>1. PICK j \in 1 .. Len(s) : j <= mid /\ x = s[j]
      BY <1>3
  <2>2. PICK k \in 1 .. Len(s) : mid < k /\ y = s[k]
      BY <1>4
  <2>3. QED
      BY <2>1, <2>2 DEF TwoRuns
<1>6. Merges(rank, pos, p, q, 0, 0, u)
  <2>1. Mergeable(rank, pos, p, q)
      BY <1>1, <1>3, <1>4, <1>5 DEF Mergeable
  <2>2. u = Merge(rank, p, q)
      BY <1>a, <1>2
  <2>3. QED
      BY <2>1, <2>2, MergeIs
<1>7. /\ u \in Seq(Elements) /\ InOrder(rank, pos, u) /\ Len(u) = (Len(p) - 0) + (Len(q) - 0)
      /\ Members(u) = Rest(p, 0) \cup Rest(q, 0)
    BY <1>6 DEF Merges
<1>8. Len(u) = Least(Len(s), hi) - lo
  <2>1. a \in Nat /\ b \in Nat
      BY <1>a
  <2>2. lo <= a /\ (mid <= b => a = mid) /\ (~(mid <= b) => a = b)
      BY <1>1, <1>a, <2>1 DEF Least
  <2>3. Len(p) = a - lo /\ Len(q) = IF mid <= b THEN b - mid ELSE 0
      BY <1>3, <1>4, <2>2
  <2>4. (Len(p) - 0) + (Len(q) - 0) = b - lo
    <3>1. CASE mid <= b
        BY <1>1, <2>1, <2>2, <2>3, <3>1
    <3>2. CASE ~(mid <= b)
        BY <1>1, <2>1, <2>2, <2>3, <3>2
    <3>3. QED
        BY <3>1, <3>2
  <2>5. QED
      BY <1>7, <1>a, <2>4
<1>9. ASSUME NEW n \in 1 .. Len(u)
      PROVE  \E k \in 1 .. Len(s) : lo < k /\ k <= hi /\ u[n] = s[k]
  <2>1. u[n] \in Members(u)
      BY <1>7 DEF Members
  <2>2. PICK k \in 1 .. Len(s) : u[n] = s[k] /\ ((lo < k /\ k <= mid) \/ (mid < k /\ k <= hi))
      BY <1>3, <1>4, <1>7, <2>1
  <2>3. Len(s) \in Nat
      BY <1>1
  <2>4. lo < k /\ k <= hi
      BY <1>1, <2>2, <2>3
  <2>5. QED
      BY <2>2, <2>4
<1>10. QED
    BY <1>7, <1>8, <1>9

(* Runs of size elements are in order, and every multiple of size parts what was first
   from what was not. *)
Blocks(rank, pos, s, size) == \A b \in Nat :
    /\ RunInOrder(rank, pos, s, size * b, size * (b + 1))
    /\ \A m, n \in 1 .. Len(s) : m <= size * b /\ size * b < n => pos[s[m]] < pos[s[n]]

Sortable(rank, pos, s, size) ==
    /\ rank \in Orders /\ pos \in Orders /\ s \in Seq(Elements) /\ size \in Nat /\ size # 0
    /\ Blocks(rank, pos, s, size)

LEMMA BlockOf ==
    ASSUME NEW k \in Nat, k # 0, NEW size \in Nat, size # 0
    PROVE  /\ (k - 1) \div size \in Nat /\ size * ((k - 1) \div size) \in Nat
           /\ size * ((k - 1) \div size) < k /\ k <= size * ((k - 1) \div size + 1)
           /\ size * ((k - 1) \div size + 1) = size * ((k - 1) \div size) + size
           /\ k = size * ((k - 1) \div size) + (((k - 1) % size) + 1)
<1>1. PICK j \in Nat : j = k - 1 /\ k = j + 1
  <2>1. k - 1 \in Nat /\ k = (k - 1) + 1
      OBVIOUS
  <2>2. QED
      BY <2>1
<1>2. PICK b \in Nat, r \in Nat : b = j \div size /\ r = j % size /\ r < size /\ j = size * b + r
    BY <1>1, Division
<1>3. PICK p \in Nat : p = size * b /\ size * (b + 1) = p + size
  <2>1. 1 \in Nat /\ size * b \in Nat /\ size * (b + 1) = size * b + size * 1
      BY Products
  <2>2. size * 1 = size
      OBVIOUS
  <2>3. QED
      BY <2>1, <2>2
<1>4. j = p + r
    BY <1>2, <1>3
<1>5. p < k /\ k <= p + size /\ k = p + (r + 1)
    BY <1>1, <1>2, <1>4
<1>6. QED
    BY <1>1, <1>2, <1>3, <1>5

LEMMA BlockAt ==
    ASSUME NEW k \in Nat, k # 0, NEW size \in Nat, size # 0, NEW b \in Nat,
           size * b < k, k <= size * (b + 1)
    PROVE  (k - 1) \div size = b
<1>1. PICK c \in Nat : /\ c = (k - 1) \div size /\ size * c < k /\ k <= size * (c + 1)
    BY BlockOf
<1>2. /\ size * b \in Nat /\ size * c \in Nat /\ b + 1 \in Nat /\ c + 1 \in Nat
      /\ size * (b + 1) \in Nat /\ size * (c + 1) \in Nat
    BY Products
<1>3. ~(b + 1 <= c)
  <2>1. b + 1 <= c => size * (b + 1) <= size * c
      BY <1>2, Products
  <2>2. QED
      BY <1>1, <1>2, <2>1
<1>4. ~(c + 1 <= b)
  <2>1. c + 1 <= b => size * (c + 1) <= size * b
      BY <1>2, Products
  <2>2. QED
      BY <1>1, <1>2, <2>1
<1>5. QED
    BY <1>1, <1>3, <1>4

(* The b-th block of size elements is from lo + 1 to hi. *)
Block(size, b, lo, hi) ==
    b \in Nat /\ lo \in Nat /\ hi \in Nat /\ lo = size * b /\ hi = size * (b + 1)

LEMMA BlockIs ==
    ASSUME NEW size \in Nat, NEW b \in Nat
    PROVE  \E lo, hi : Block(size, b, lo, hi)
<1>1. b + 1 \in Nat /\ size * b \in Nat /\ size * (b + 1) \in Nat
    BY Products
<1>2. QED
    BY <1>1 DEF Block

LEMMA HasBlock ==
    ASSUME NEW k \in Nat, k # 0, NEW size \in Nat, size # 0
    PROVE  \E b, lo, hi : Block(size, b, lo, hi) /\ lo < k /\ k <= hi
<1>1. PICK c \in Nat, p \in Nat : /\ c = (k - 1) \div size /\ p = size * c /\ p < k /\ k <= size * (c + 1)
    BY BlockOf
<1>2. PICK lo, hi : Block(size, c, lo, hi)
    BY BlockIs
<1>3. lo < k /\ k <= hi
    BY <1>1, <1>2 DEF Block
<1>4. QED
    BY <1>2, <1>3

LEMMA PlaceInBlock ==
    ASSUME NEW k \in Nat, k # 0, NEW size \in Nat, size # 0, NEW b, NEW lo, NEW hi, Block(size, b, lo, hi),
           lo < k, k <= hi
    PROVE  (k - 1) \div size = b /\ ((k - 1) % size) + 1 = k - lo
<1>1. (k - 1) \div size = b
    BY BlockAt DEF Block
<1>2. PICK r : r = (k - 1) % size
    OBVIOUS
<1>3. r \in Nat
  <2>1. k - 1 \in Nat
      OBVIOUS
  <2>2. PICK j \in Nat : j = k - 1
      BY <2>1
  <2>3. j % size \in Nat
      BY Division
  <2>4. QED
      BY <1>2, <2>2, <2>3
<1>4. k = size * ((k - 1) \div size) + (((k - 1) % size) + 1)
    BY BlockOf
<1>5. k = size * b + (r + 1)
    BY <1>1, <1>2, <1>4
<1>6. k = lo + (r + 1) /\ lo \in Nat
    BY <1>5 DEF Block
<1>7. r + 1 = k - lo
    BY <1>3, <1>6
<1>8. QED
    BY <1>1, <1>2, <1>7

LEMMA BlocksApart ==
    ASSUME NEW size \in Nat, NEW b, NEW x, NEW y, Block(size, b, x, y),
           NEW c, NEW lo, NEW hi, Block(size, c, lo, hi)
    PROVE  lo < x => hi <= x
<1>1. /\ b \in Nat /\ x \in Nat /\ c \in Nat /\ lo \in Nat /\ hi \in Nat /\ c + 1 \in Nat
      /\ x = size * b /\ lo = size * c /\ hi = size * (c + 1)
    BY DEF Block
<1>2. b <= c => size * b <= size * c
    BY <1>1, Products
<1>3. c + 1 <= b => size * (c + 1) <= size * b
    BY <1>1, Products
<1>4. b <= c \/ c + 1 <= b
    BY <1>1
<1>5. CASE b <= c
  <2>1. x <= lo
      BY <1>1, <1>2, <1>5
  <2>2. QED
      BY <1>1, <2>1
<1>6. CASE c + 1 <= b
    BY <1>1, <1>3, <1>6
<1>7. QED
    BY <1>4, <1>5, <1>6

LEMMA BlocksOnce ==
    ASSUME NEW rank, NEW pos, NEW s, NEW size, Sortable(rank, pos, s, size)
    PROVE  Once(s)
<1>1. /\ rank \in Orders /\ pos \in Orders /\ s \in Seq(Elements) /\ size \in Nat /\ size # 0
      /\ Len(s) \in Nat /\ DOMAIN s = 1 .. Len(s) /\ \A k \in 1 .. Len(s) : s[k] \in Elements
    BY DEF Sortable
<1>2. ASSUME NEW m \in 1 .. Len(s), NEW n \in 1 .. Len(s), m < n
      PROVE  s[m] # s[n]
  <2>1. m \in Nat /\ m # 0 /\ n \in Nat
      BY <1>1
  <2>2. PICK b \in Nat : /\ b = (m - 1) \div size /\ size * b < m /\ m <= size * (b + 1)
      BY <1>1, <2>1, BlockOf
  <2>3. b + 1 \in Nat /\ size * (b + 1) \in Nat
      BY <1>1, Products
  <2>4. CASE n <= size * (b + 1)
    <3>1. RunInOrder(rank, pos, s, size * b, size * (b + 1))
        BY DEF Sortable, Blocks
    <3>2. Before(rank, pos, s[m], s[n])
        BY <1>2, <2>2, <2>4, <3>1 DEF RunInOrder
    <3>3. QED
        BY <1>1, <3>2, BeforeIs
  <2>5. CASE size * (b + 1) < n
    <3>1. pos[s[m]] < pos[s[n]]
        BY <2>2, <2>3, <2>5 DEF Sortable, Blocks
    <3>2. pos[s[m]] \in Int
        BY <1>1 DEF Orders
    <3>3. QED
        BY <3>1, <3>2
  <2>6. QED
      BY <2>1, <2>3, <2>4, <2>5
<1>3. \A m, n \in 1 .. Len(s) : m < n \/ n < m \/ m = n
    BY <1>1
<1>4. QED
    BY <1>1, <1>2, <1>3 DEF Once

Run(s, size, n) == Piece(s, n * size, Least(Len(s), (n + 1) * size))

MergedRuns(rank, s, size, n) == Merge(rank, Run(s, size, 2 * n), Run(s, size, 2 * n + 1))

IsBlockOf(rank, pos, s, lo, hi, u) ==
    /\ u \in Seq(Elements) /\ InOrder(rank, pos, u) /\ Len(u) = Least(Len(s), hi) - lo
    /\ \A n \in 1 .. Len(u) : \E k \in 1 .. Len(s) : lo < k /\ k <= hi /\ u[n] = s[k]

LEMMA RunsAre ==
    ASSUME NEW rank, NEW pos, NEW s, NEW size, Sortable(rank, pos, s, size),
           NEW J, J = 2 * size, NEW n, NEW lo, NEW hi, Block(J, n, lo, hi), lo < Len(s)
    PROVE  IsBlockOf(rank, pos, s, lo, hi, MergedRuns(rank, s, size, n))
<1>1. /\ rank \in Orders /\ pos \in Orders /\ s \in Seq(Elements) /\ size \in Nat /\ size # 0
      /\ Blocks(rank, pos, s, size)
    BY DEF Sortable
<1>a. n \in Nat /\ lo \in Nat /\ hi \in Nat /\ lo = (2 * size) * n /\ hi = (2 * size) * (n + 1)
    BY DEF Block
<1>2. PICK b \in Nat, b1 \in Nat, b2 \in Nat : b = 2 * n /\ b1 = b + 1 /\ b2 = b1 + 1
    BY <1>a
<1>3. PICK mid \in Nat : mid = size * b1 /\ lo = size * b /\ hi = size * b2 /\ lo <= mid /\ mid <= hi
  <2>1. size * b \in Nat /\ size * b1 \in Nat /\ size * b2 \in Nat
      BY <1>1, <1>2, Products
  <2>2. size * b <= size * b1 /\ size * b1 <= size * b2
    <3>1. b <= b1 /\ b1 <= b2
        BY <1>2
    <3>2. QED
        BY <1>1, <3>1, Products
  <2>3. lo = size * b
      BY <1>1, <1>2, <1>a
  <2>4. hi = size * b2
    <3>1. b2 = 2 * (n + 1) /\ n + 1 \in Nat
        BY <1>2, <1>a
    <3>2. \A k \in Nat : (2 * size) * k = size * (2 * k)
        BY <1>1
    <3>3. QED
        BY <1>a, <3>1, <3>2
  <2>5. QED
      BY <2>1, <2>2, <2>3, <2>4
<1>4. TwoRuns(rank, pos, s, lo, mid, hi)
  <2>1. RunInOrder(rank, pos, s, lo, mid) /\ RunInOrder(rank, pos, s, mid, hi)
      BY <1>1, <1>2, <1>3 DEF Blocks
  <2>2. \A m, k \in 1 .. Len(s) : m <= mid /\ mid < k => pos[s[m]] < pos[s[k]]
      BY <1>1, <1>3 DEF Blocks
  <2>3. QED
      BY <1>1, <1>3, <1>a, <2>1, <2>2 DEF TwoRuns, RunInOrder
<1>5. MergedRuns(rank, s, size, n) =
         Merge(rank, Piece(s, lo, Least(Len(s), mid)), Piece(s, mid, Least(Len(s), hi)))
  <2>1. b * size = lo /\ b1 * size = mid /\ b2 * size = hi
      BY <1>1, <1>3, Products
  <2>2. Run(s, size, b) = Piece(s, lo, Least(Len(s), mid)) /\ Run(s, size, b1) = Piece(s, mid, Least(Len(s), hi))
      BY <1>2, <2>1 DEF Run
  <2>3. QED
      BY <1>2, <2>2 DEF MergedRuns
<1>6. QED
    BY <1>4, <1>5, RunsMerged DEF IsBlockOf

MergedAt(rank, s, size, k) ==
    MergedRuns(rank, s, size, (k - 1) \div (2 * size))[((k - 1) % (2 * size)) + 1]

(* The k-th of a pass is in the merge of its block. *)
LEMMA MergedAtIs ==
    ASSUME NEW rank, NEW pos, NEW s, NEW size, Sortable(rank, pos, s, size), NEW J, J = 2 * size,
           NEW b, NEW lo, NEW hi, Block(J, b, lo, hi), NEW k \in 1 .. Len(s), lo < k, k <= hi
    PROVE  /\ k - lo \in 1 .. Len(MergedRuns(rank, s, size, b))
           /\ MergedAt(rank, s, size, k) = MergedRuns(rank, s, size, b)[k - lo]
<1>1. Len(s) \in Nat /\ size \in Nat /\ size # 0 /\ lo \in Nat /\ hi \in Nat
    BY DEF Sortable, Block
<1>2. J \in Nat /\ J # 0
    BY <1>1
<1>3. k \in Nat /\ k # 0 /\ lo < Len(s)
    BY <1>1
<1>4. (k - 1) \div J = b /\ ((k - 1) % J) + 1 = k - lo
    BY <1>2, <1>3, PlaceInBlock
<1>5. MergedAt(rank, s, size, k) = MergedRuns(rank, s, size, b)[k - lo]
    BY <1>4 DEF MergedAt
<1>6. Len(MergedRuns(rank, s, size, b)) = Least(Len(s), hi) - lo
    BY <1>3, RunsAre DEF IsBlockOf
<1>7. k - lo \in 1 .. Least(Len(s), hi) - lo
    BY <1>1, <1>3 DEF Least
<1>8. QED
    BY <1>5, <1>6, <1>7

LEMMA FromItsBlock ==
    ASSUME NEW rank, NEW pos, NEW s, NEW size, Sortable(rank, pos, s, size), NEW J, J = 2 * size,
           NEW b, NEW lo, NEW hi, Block(J, b, lo, hi), NEW k \in 1 .. Len(s), lo < k, k <= hi
    PROVE  \E j \in 1 .. Len(s) : lo < j /\ j <= hi /\ MergedAt(rank, s, size, k) = s[j]
<1>1. lo < Len(s)
    BY DEF Sortable, Block
<1>2. PICK u : u = MergedRuns(rank, s, size, b)
    OBVIOUS
<1>3. PICK i : i = k - lo
    OBVIOUS
<1>4. i \in 1 .. Len(u) /\ MergedAt(rank, s, size, k) = u[i]
    BY <1>2, <1>3, MergedAtIs
<1>5. IsBlockOf(rank, pos, s, lo, hi, u)
    BY <1>1, <1>2, RunsAre
<1>6. QED
    BY <1>4, <1>5 DEF IsBlockOf

(* The pass, before it is made a sequence of. *)
IsPass(rank, s, size, t) ==
    /\ t \in Seq(Elements) /\ Len(t) = Len(s)
    /\ \A k \in 1 .. Len(s) : t[k] = MergedAt(rank, s, size, k)

LEMMA PassIs ==
    ASSUME NEW rank, NEW pos, NEW s, NEW size, Sortable(rank, pos, s, size)
    PROVE  /\ IsPass(rank, s, size, MergePass(rank, s, size))
           /\ \A k \in 1 .. Len(s) : MergedAt(rank, s, size, k) \in Members(s)
<1>1. PICK L \in Nat, J \in Nat : L = Len(s) /\ J = 2 * size /\ J # 0
  <2>1. Len(s) \in Nat /\ 2 * size \in Nat /\ 2 * size # 0
      BY DEF Sortable
  <2>2. QED
      BY <2>1
<1>2. s \in Seq(Elements) /\ DOMAIN s = 1 .. L /\ \A k \in 1 .. L : s[k] \in Elements
    BY <1>1 DEF Sortable
<1>3. ASSUME NEW k \in 1 .. L
      PROVE  \E j \in 1 .. L : MergedAt(rank, s, size, k) = s[j]
  <2>1. k \in Nat /\ k # 0
      BY <1>1
  <2>2. PICK b, lo, hi : Block(J, b, lo, hi) /\ lo < k /\ k <= hi
      BY <1>1, <2>1, HasBlock
  <2>3. \E j \in 1 .. Len(s) : lo < j /\ j <= hi /\ MergedAt(rank, s, size, k) = s[j]
      BY <1>1, <2>2, FromItsBlock
  <2>4. QED
      BY <1>1, <2>3
<1>4. \A k \in 1 .. L : MergedAt(rank, s, size, k) \in Members(s) /\ MergedAt(rank, s, size, k) \in Elements
    BY <1>2, <1>3 DEF Members
<1>5. PICK out : out = [k \in 1 .. L |-> MergedAt(rank, s, size, k)]
    OBVIOUS
<1>6. out \in Seq(Elements) /\ Len(out) = L
  <2>1. out \in [1 .. L -> Elements]
      BY <1>4, <1>5
  <2>2. QED
      BY <1>1, <2>1
<1>7. PICK t : t = MergePass(rank, s, size)
    OBVIOUS
<1>8. t = Piece(out, 0, L)
  <2>1. t = SubSeq(out, 1, L)
      BY <1>1, <1>5, <1>7 DEF MergePass, MergedAt, MergedRuns, Run, Piece, Least
  <2>2. 0 + 1 = 1
      OBVIOUS
  <2>3. QED
      BY <2>1, <2>2 DEF Piece
<1>9. t \in Seq(Elements) /\ Len(t) = L /\ \A k \in 1 .. L : t[k] = out[k]
  <2>1. PICK z \in Nat : z = 0
      OBVIOUS
  <2>2. L \in 0 .. Len(out)
      BY <1>1, <1>6
  <2>3. /\ Piece(out, z, L) \in Seq(Elements) /\ Len(Piece(out, z, L)) = (IF z <= L THEN L - z ELSE 0)
        /\ \A k \in 1 .. L - z : Piece(out, z, L)[k] = out[z + k]
      BY <1>6, <2>2, PieceIs
  <2>4. (IF z <= L THEN L - z ELSE 0) = L /\ \A k \in 1 .. L : k \in 1 .. L - z /\ z + k = k
      BY <1>1, <2>1
  <2>5. QED
      BY <1>8, <2>1, <2>3, <2>4
<1>10. QED
    BY <1>1, <1>4, <1>5, <1>7, <1>9 DEF IsPass

LEMMA PassBlocks ==
    ASSUME NEW rank, NEW pos, NEW s, NEW size, Sortable(rank, pos, s, size), NEW J, J = 2 * size,
           NEW t, IsPass(rank, s, size, t), NEW b, NEW lo, NEW hi, Block(J, b, lo, hi)
    PROVE  RunInOrder(rank, pos, t, lo, hi)
<1>1. PICK L \in Nat : L = Len(s) /\ L = Len(t) /\ lo \in Nat /\ hi \in Nat
    BY DEF Sortable, IsPass, Block
<1>2. SUFFICES ASSUME NEW m \in 1 .. L, NEW n \in 1 .. L, lo < m, m < n, n <= hi
               PROVE  Before(rank, pos, t[m], t[n])
    BY <1>1 DEF RunInOrder
<1>3. PICK u : u = MergedRuns(rank, s, size, b)
    OBVIOUS
<1>4. lo < Len(s) /\ lo < n /\ m <= hi
    BY <1>1, <1>2
<1>5. PICK i, j : i = m - lo /\ j = n - lo
    OBVIOUS
<1>6. i \in 1 .. Len(u) /\ t[m] = u[i]
  <2>1. m \in 1 .. Len(s) /\ lo < m /\ m <= hi
      BY <1>1, <1>2, <1>4
  <2>2. i \in 1 .. Len(u) /\ MergedAt(rank, s, size, m) = u[i]
      BY <1>3, <1>5, <2>1, MergedAtIs
  <2>3. QED
      BY <2>1, <2>2 DEF IsPass
<1>7. j \in 1 .. Len(u) /\ t[n] = u[j]
  <2>1. n \in 1 .. Len(s) /\ lo < n /\ n <= hi
      BY <1>1, <1>2, <1>4
  <2>2. j \in 1 .. Len(u) /\ MergedAt(rank, s, size, n) = u[j]
      BY <1>3, <1>5, <2>1, MergedAtIs
  <2>3. QED
      BY <2>1, <2>2 DEF IsPass
<1>8. u \in Seq(Elements) /\ InOrder(rank, pos, u)
    BY <1>3, <1>4, RunsAre DEF IsBlockOf
<1>9. i < j /\ DOMAIN u = 1 .. Len(u)
    BY <1>1, <1>2, <1>5, <1>8
<1>10. QED
    BY <1>6, <1>7, <1>8, <1>9 DEF InOrder

LEMMA PassParts ==
    ASSUME NEW rank, NEW pos, NEW s, NEW size, Sortable(rank, pos, s, size), NEW J \in Nat, J = 2 * size,
           J # 0, NEW t, IsPass(rank, s, size, t), NEW b, NEW x, NEW y, Block(J, b, x, y),
           NEW m \in 1 .. Len(t), NEW n \in 1 .. Len(t), m <= x, x < n
    PROVE  pos[t[m]] < pos[t[n]]
<1>1. PICK L \in Nat : /\ L = Len(s) /\ L = Len(t) /\ x \in Nat /\ b \in Nat
                       /\ size \in Nat /\ size # 0
    BY DEF Sortable, IsPass, Block
<1>2. m \in Nat /\ m # 0 /\ n \in Nat /\ n # 0 /\ m \in 1 .. Len(s) /\ n \in 1 .. Len(s)
    BY <1>1
<1>3. PICK c, lo, hi : Block(J, c, lo, hi) /\ lo < m /\ m <= hi
    BY <1>2, HasBlock
<1>4. PICK d, lo2, hi2 : Block(J, d, lo2, hi2) /\ lo2 < n /\ n <= hi2
    BY <1>2, HasBlock
<1>5. lo \in Nat /\ hi \in Nat /\ lo2 \in Nat /\ hi2 \in Nat
    BY <1>3, <1>4 DEF Block
<1>6. hi <= x
  <2>1. lo < x
      BY <1>1, <1>2, <1>3, <1>5
  <2>2. QED
      BY <1>3, <2>1, BlocksApart
<1>7. x <= lo2
  <2>1. lo2 < x => hi2 <= x
      BY <1>4, BlocksApart
  <2>2. QED
      BY <1>1, <1>2, <1>4, <1>5, <2>1
<1>8. PICK i \in 1 .. Len(s) : i <= hi /\ t[m] = s[i]
  <2>1. \E i \in 1 .. Len(s) : lo < i /\ i <= hi /\ MergedAt(rank, s, size, m) = s[i]
      BY <1>2, <1>3, FromItsBlock
  <2>2. QED
      BY <1>2, <2>1 DEF IsPass
<1>9. PICK j \in 1 .. Len(s) : lo2 < j /\ t[n] = s[j]
  <2>1. \E j \in 1 .. Len(s) : lo2 < j /\ j <= hi2 /\ MergedAt(rank, s, size, n) = s[j]
      BY <1>2, <1>4, FromItsBlock
  <2>2. QED
      BY <1>2, <2>1 DEF IsPass
<1>10. i <= x /\ x < j
    BY <1>1, <1>5, <1>6, <1>7, <1>8, <1>9
<1>11. PICK a \in Nat : a = 2 * b /\ x = size * a
  <2>1. x = (2 * size) * b
      BY DEF Block
  <2>2. 2 * b \in Nat /\ (2 * size) * b = size * (2 * b)
      BY <1>1
  <2>3. QED
      BY <2>1, <2>2
<1>12. pos[s[i]] < pos[s[j]]
  <2>1. \A k, l \in 1 .. Len(s) : k <= size * a /\ size * a < l => pos[s[k]] < pos[s[l]]
      BY DEF Sortable, Blocks
  <2>2. QED
      BY <1>10, <1>11, <2>1
<1>13. QED
    BY <1>8, <1>9, <1>12

LEMMA MergePassIs ==
    ASSUME NEW rank, NEW pos, NEW s, NEW size, Sortable(rank, pos, s, size),
           NEW t, t = MergePass(rank, s, size)
    PROVE  /\ Sortable(rank, pos, t, 2 * size) /\ Len(t) = Len(s) /\ Members(t) = Members(s)
<1>1. PICK J \in Nat : J = 2 * size /\ J # 0
  <2>1. 2 * size \in Nat /\ 2 * size # 0
      BY DEF Sortable
  <2>2. QED
      BY <2>1
<1>2. IsPass(rank, s, size, t) /\ \A k \in 1 .. Len(s) : MergedAt(rank, s, size, k) \in Members(s)
    BY PassIs
<1>3. t \in Seq(Elements) /\ Len(t) = Len(s) /\ \A k \in 1 .. Len(s) : t[k] \in Members(s)
    BY <1>2 DEF IsPass
<1>4. ASSUME NEW b \in Nat
      PROVE  /\ RunInOrder(rank, pos, t, J * b, J * (b + 1))
             /\ \A m, n \in 1 .. Len(t) : m <= J * b /\ J * b < n => pos[t[m]] < pos[t[n]]
  <2>1. PICK lo, hi : Block(J, b, lo, hi) /\ lo = J * b /\ hi = J * (b + 1)
    <3>1. PICK lo, hi : Block(J, b, lo, hi)
        BY BlockIs
    <3>2. QED
        BY <3>1 DEF Block
  <2>2. RunInOrder(rank, pos, t, lo, hi)
      BY <1>1, <1>2, <2>1, PassBlocks
  <2>3. \A m, n \in 1 .. Len(t) : m <= lo /\ lo < n => pos[t[m]] < pos[t[n]]
      BY <1>1, <1>2, <2>1, PassParts
  <2>4. QED
      BY <2>1, <2>2, <2>3
<1>5. Sortable(rank, pos, t, J)
    BY <1>1, <1>3, <1>4 DEF Sortable, Blocks
<1>6. Members(t) = Members(s)
  <2>1. Once(s) /\ Once(t) /\ s \in Seq(Elements)
      BY <1>5, BlocksOnce DEF Sortable
  <2>2. Members(t) \subseteq Members(s)
    <3>1. DOMAIN t = 1 .. Len(s)
        BY <1>3
    <3>2. QED
        BY <1>3, <3>1 DEF Members
  <2>3. QED
      BY <1>3, <2>1, <2>2, SameMembers
<1>7. QED
    BY <1>1, <1>3, <1>5, <1>6

IsSizes(s, i) == i = [n \in 0 .. Len(s) |-> IF n = 0 THEN 1 ELSE 2 * i[n-1]]

IsPasses(rank, s, i, a) ==
    a = [n \in 0 .. Len(s) |-> IF n = 0 THEN s ELSE MergePass(rank, a[n-1], i[n-1])]

LEMMA SizesExist ==
    ASSUME NEW s, Len(s) \in Nat
    PROVE  \E i : IsSizes(s, i)
<1>0. PICK L \in Nat : L = Len(s)
    OBVIOUS
<1>1. PICK V, G : L = Len(s) /\ V = Nat /\ G = [n \in 1 .. L |-> [x \in V |-> 2 * x]]
    BY <1>0
<1>2. G \in Steps(L, V) /\ 1 \in V
    BY <1>1 DEF Steps
<1>3. PICK f : Recurs(f, L, V, 1, G)
    BY <1>2, Recursion
<1>4. ASSUME NEW n \in 0 .. L
      PROVE  f[n] = IF n = 0 THEN 1 ELSE 2 * f[n - 1]
  <2>1. CASE n = 0
      BY <1>3, <2>1 DEF Recurs
  <2>2. CASE n # 0
    <3>1. n \in 1 .. L /\ n - 1 \in 0 .. L
        BY <2>2
    <3>2. f[n] = G[n][f[n - 1]] /\ f[n - 1] \in V
        BY <1>3, <3>1 DEF Recurs
    <3>3. G[n] = [x \in V |-> 2 * x]
        BY <1>1, <3>1
    <3>4. QED
        BY <2>2, <3>2, <3>3
  <2>3. QED
      BY <2>1, <2>2
<1>5. f = [n \in 0 .. L |-> f[n]]
    BY <1>3 DEF Recurs
<1>6. QED
    BY <1>1, <1>4, <1>5 DEF IsSizes

LEMMA SizesAre ==
    ASSUME NEW s, Len(s) \in Nat, NEW i, IsSizes(s, i)
    PROVE  /\ i[0] = 1 /\ \A n \in 0 .. Len(s) : i[n] \in Nat /\ n + 1 <= i[n]
           /\ \A n \in Nat : n + 1 \in 0 .. Len(s) => i[n + 1] = 2 * i[n]
<1>1. PICK L \in Nat : L = Len(s)
    OBVIOUS
<1>2. i[0] = 1 /\ \A n \in Nat : n + 1 \in 0 .. L => i[n + 1] = 2 * i[n]
  <2>1. i = [n \in 0 .. L |-> IF n = 0 THEN 1 ELSE 2 * i[n-1]]
      BY <1>1 DEF IsSizes
  <2>2. i[0] = 1
      BY <2>1
  <2>3. ASSUME NEW n \in Nat, n + 1 \in 0 .. L
        PROVE  i[n + 1] = 2 * i[n]
    <3>1. n + 1 # 0 /\ (n + 1) - 1 = n
        OBVIOUS
    <3>2. i[n + 1] = IF n + 1 = 0 THEN 1 ELSE 2 * i[(n + 1) - 1]
        BY <2>1, <2>3
    <3>3. QED
        BY <3>1, <3>2
  <2>4. QED
      BY <2>2, <2>3
<1> DEFINE S == {n \in Nat : n <= L => i[n] \in Nat /\ n + 1 <= i[n]}
<1>3. 0 \in S
    BY <1>2
<1>4. ASSUME NEW n \in Nat, n \in S
      PROVE  n + 1 \in S
  <2>1. SUFFICES ASSUME n + 1 <= L
                 PROVE  i[n + 1] \in Nat /\ (n + 1) + 1 <= i[n + 1]
      OBVIOUS
  <2>2. i[n] \in Nat /\ n + 1 <= i[n] /\ i[n + 1] = 2 * i[n]
      BY <1>2, <1>4, <2>1
  <2>3. QED
      BY <2>2
<1> HIDE DEF S
<1>5. \A n \in Nat : n \in S
    BY <1>3, <1>4, SetInduction
<1>6. \A n \in 0 .. L : n \in Nat /\ n <= L
    OBVIOUS
<1>7. \A n \in 0 .. L : i[n] \in Nat /\ n + 1 <= i[n]
    BY <1>5, <1>6 DEF S
<1>8. QED
    BY <1>1, <1>2, <1>7

LEMMA PassesExist ==
    ASSUME NEW rank, NEW s, Len(s) \in Nat, NEW i
    PROVE  \E a : IsPasses(rank, s, i, a)
<1>1. PICK L \in Nat : L = Len(s)
    OBVIOUS
<1> DEFINE S == {k \in Nat : \E f : f = [n \in 0 .. k |-> IF n = 0 THEN s ELSE MergePass(rank, f[n-1], i[n-1])]}
<1>2. 0 \in S
  <2>1. PICK f : f = [n \in 0 .. 0 |-> s]
      OBVIOUS
  <2>2. \A n \in 0 .. 0 : n = 0
      OBVIOUS
  <2>3. f = [n \in 0 .. 0 |-> IF n = 0 THEN s ELSE MergePass(rank, f[n-1], i[n-1])]
      BY <2>1, <2>2
  <2>4. QED
      BY <2>3
<1>3. ASSUME NEW k \in Nat, k \in S
      PROVE  k + 1 \in S
  <2>1. PICK f : f = [n \in 0 .. k |-> IF n = 0 THEN s ELSE MergePass(rank, f[n-1], i[n-1])]
      BY <1>3
  <2>2. PICK g : g = [n \in 0 .. k + 1 |-> IF n = k + 1 THEN MergePass(rank, f[k], i[k]) ELSE f[n]]
      OBVIOUS
  <2>3. k \in 0 .. k /\ k + 1 # 0 /\ (k + 1) - 1 = k /\ k # k + 1 /\ k + 1 \in 0 .. k + 1 /\ k \in 0 .. k + 1
      OBVIOUS
  <2>4. \A n \in 0 .. k : n # k + 1 /\ n \in 0 .. k + 1 /\ (n # 0 => n - 1 \in 0 .. k)
      OBVIOUS
  <2>5. g[k + 1] = MergePass(rank, f[k], i[k]) /\ \A n \in 0 .. k : g[n] = f[n]
      BY <2>2, <2>3, <2>4
  <2>6. ASSUME NEW n \in 0 .. k + 1
        PROVE  g[n] = IF n = 0 THEN s ELSE MergePass(rank, g[n-1], i[n-1])
    <3>1. CASE n = k + 1
        BY <2>3, <2>5, <3>1
    <3>2. CASE n # k + 1
      <4>1. n \in 0 .. k
          BY <3>2
      <4>2. f[n] = IF n = 0 THEN s ELSE MergePass(rank, f[n-1], i[n-1])
          BY <2>1, <4>1
      <4>3. n # 0 => g[n - 1] = f[n - 1]
          BY <2>4, <2>5, <4>1
      <4>4. QED
          BY <2>5, <4>1, <4>2, <4>3
    <3>3. QED
        BY <3>1, <3>2
  <2>7. g = [n \in 0 .. k + 1 |-> g[n]]
      BY <2>2
  <2>8. g = [n \in 0 .. k + 1 |-> IF n = 0 THEN s ELSE MergePass(rank, g[n-1], i[n-1])]
      BY <2>6, <2>7
  <2>9. QED
      BY <2>8
<1> HIDE DEF S
<1>4. L \in S
    BY <1>2, <1>3, SetInduction
<1>5. QED
    BY <1>1, <1>4 DEF S, IsPasses

LEMMA PassesAre ==
    ASSUME NEW rank, NEW s, Len(s) \in Nat, NEW i, NEW a, IsPasses(rank, s, i, a)
    PROVE  a[0] = s /\ \A n \in Nat : n + 1 \in 0 .. Len(s) => a[n + 1] = MergePass(rank, a[n], i[n])
<1>1. a = [n \in 0 .. Len(s) |-> IF n = 0 THEN s ELSE MergePass(rank, a[n-1], i[n-1])]
    BY DEF IsPasses
<1>2. a[0] = s
    BY <1>1
<1>3. ASSUME NEW n \in Nat, n + 1 \in 0 .. Len(s)
      PROVE  a[n + 1] = MergePass(rank, a[n], i[n])
  <2>1. n + 1 # 0 /\ (n + 1) - 1 = n
      OBVIOUS
  <2>2. a[n + 1] = IF n + 1 = 0 THEN s ELSE MergePass(rank, a[(n + 1) - 1], i[(n + 1) - 1])
      BY <1>1, <1>3
  <2>3. QED
      BY <2>1, <2>2
<1>4. QED
    BY <1>2, <1>3

Done(s, i) == {n \in 1 .. Len(s) : Len(s) <= i[n]}

LastPass(s, i) == CHOOSE n \in Done(s, i) : \A m \in Done(s, i) : n <= m

LEMMA SortedUnfolds ==
    ASSUME NEW rank, NEW s, Len(s) \in Nat
    PROVE  \E i, a : IsSizes(s, i) /\ IsPasses(rank, s, i, a) /\ Sorted(rank, s) = a[LastPass(s, i)]
<1>1. PICK i : /\ i = CHOOSE j : j = [n \in 0 .. Len(s) |-> IF n = 0 THEN 1 ELSE 2 * j[n-1]]
    OBVIOUS
<1>2. IsSizes(s, i)
  <2>1. \E j : j = [n \in 0 .. Len(s) |-> IF n = 0 THEN 1 ELSE 2 * j[n-1]]
      BY SizesExist DEF IsSizes
  <2>2. QED
      BY <1>1, <2>1 DEF IsSizes
<1>3. PICK a : /\ a = CHOOSE b : b = [n \in 0 .. Len(s) |-> IF n = 0 THEN s ELSE MergePass(rank, b[n-1], i[n-1])]
    OBVIOUS
<1>4. IsPasses(rank, s, i, a)
  <2>1. \E b : b = [n \in 0 .. Len(s) |-> IF n = 0 THEN s ELSE MergePass(rank, b[n-1], i[n-1])]
    <3>1. \E b : IsPasses(rank, s, i, b)
        BY PassesExist
    <3>2. QED
        BY <3>1 DEF IsPasses
  <2>2. QED
      BY <1>3, <2>1 DEF IsPasses
<1>5. Sorted(rank, s) = a[LastPass(s, i)]
    BY <1>1, <1>3 DEF Sorted, LastPass, Done
<1>6. QED
    BY <1>2, <1>4, <1>5

WasAt(s) == [e \in Elements |-> IF e \in Members(s) THEN Position(s, e) ELSE 0]

LEMMA WasAtIs ==
    ASSUME NEW s \in Seq(Elements), Once(s)
    PROVE  WasAt(s) \in Orders /\ \A n \in 1 .. Len(s) : WasAt(s)[s[n]] = n
<1>1. \A e \in Members(s) : Position(s, e) \in Int
    BY PositionOf
<1>2. WasAt(s) \in Orders
    BY <1>1 DEF WasAt, Orders
<1>3. ASSUME NEW n \in 1 .. Len(s)
      PROVE  WasAt(s)[s[n]] = n
  <2>1. n \in DOMAIN s /\ s[n] \in Members(s) /\ s[n] \in Elements
      BY DEF Members
  <2>2. QED
      BY <2>1, PositionIs DEF WasAt
<1>4. QED
    BY <1>2, <1>3

LEMMA OnesAreSortable ==
    ASSUME NEW rank \in Orders, NEW s \in Seq(Elements), Once(s)
    PROVE  Sortable(rank, WasAt(s), s, 1)
<1>1. PICK L \in Nat : L = Len(s)
    OBVIOUS
<1>2. ASSUME NEW b \in Nat
      PROVE  /\ RunInOrder(rank, WasAt(s), s, 1 * b, 1 * (b + 1))
             /\ \A m, n \in 1 .. L : m <= 1 * b /\ 1 * b < n => WasAt(s)[s[m]] < WasAt(s)[s[n]]
  <2>1. 1 * b = b /\ 1 * (b + 1) = b + 1
      OBVIOUS
  <2>2. \A m, n \in 1 .. L : /\ ~(b < m /\ m < n /\ n <= b + 1)
                             /\ m <= b /\ b < n => m < n
      OBVIOUS
  <2>3. \A n \in 1 .. L : WasAt(s)[s[n]] = n
      BY <1>1, WasAtIs
  <2>4. RunInOrder(rank, WasAt(s), s, b, b + 1)
      BY <1>1, <2>2 DEF RunInOrder
  <2>5. \A m, n \in 1 .. L : m <= b /\ b < n => WasAt(s)[s[m]] < WasAt(s)[s[n]]
      BY <2>2, <2>3
  <2>6. QED
      BY <2>1, <2>4, <2>5
<1>3. QED
    BY <1>1, <1>2, WasAtIs DEF Sortable, Blocks

(* HASH_SORT yields the same elements, in order and, where their ranks are equal, as
   they were. *)
LEMMA SortedIs ==
    ASSUME NEW rank \in Orders, NEW s \in Seq(Elements), Once(s), s # << >>
    PROVE  /\ Sorted(rank, s) \in Seq(Elements) /\ Once(Sorted(rank, s)) /\ Len(Sorted(rank, s)) = Len(s)
           /\ Members(Sorted(rank, s)) = Members(s) /\ InOrder(rank, WasAt(s), Sorted(rank, s))
<1>1. PICK L \in Nat : L = Len(s) /\ L # 0
    OBVIOUS
<1>2. PICK i, a : IsSizes(s, i) /\ IsPasses(rank, s, i, a) /\ Sorted(rank, s) = a[LastPass(s, i)]
    BY <1>1, SortedUnfolds
<1>3. /\ i[0] = 1 /\ \A n \in 0 .. L : i[n] \in Nat /\ n + 1 <= i[n]
      /\ \A n \in Nat : n + 1 \in 0 .. L => i[n + 1] = 2 * i[n]
    BY <1>1, <1>2, SizesAre
<1>4. a[0] = s /\ \A n \in Nat : n + 1 \in 0 .. L => a[n + 1] = MergePass(rank, a[n], i[n])
  <2>1. Len(s) \in Nat /\ IsPasses(rank, s, i, a)
      BY <1>1, <1>2
  <2>2. a[0] = s /\ \A n \in Nat : n + 1 \in 0 .. Len(s) => a[n + 1] = MergePass(rank, a[n], i[n])
      BY <2>1, PassesAre
  <2>3. QED
      BY <1>1, <2>2
<1>5. LastPass(s, i) \in 1 .. L /\ L <= i[LastPass(s, i)]
  <2>1. L \in Done(s, i)
    <3>1. L \in 1 .. L /\ L \in 0 .. L
        BY <1>1
    <3>2. L + 1 <= i[L] /\ i[L] \in Nat
        BY <1>3, <3>1
    <3>3. L <= i[L]
        BY <3>2
    <3>4. QED
        BY <1>1, <3>1, <3>3 DEF Done
  <2>2. Done(s, i) \in SUBSET Nat
      BY <1>1 DEF Done
  <2>3. \E n \in Done(s, i) : \A m \in Done(s, i) : n <= m
      BY <2>1, <2>2, LeastOf
  <2>4. LastPass(s, i) \in Done(s, i)
      BY <2>3 DEF LastPass
  <2>5. QED
      BY <1>1, <2>4 DEF Done
<1> DEFINE S == {n \in Nat : n <= L => /\ Sortable(rank, WasAt(s), a[n], i[n])
                                       /\ Len(a[n]) = L /\ Members(a[n]) = Members(s)}
<1>6. 0 \in S
    BY <1>1, <1>3, <1>4, OnesAreSortable
<1>7. ASSUME NEW n \in Nat, n \in S
      PROVE  n + 1 \in S
  <2>1. SUFFICES ASSUME n + 1 <= L
                 PROVE  /\ Sortable(rank, WasAt(s), a[n + 1], i[n + 1])
                        /\ Len(a[n + 1]) = L /\ Members(a[n + 1]) = Members(s)
      OBVIOUS
  <2>2. Sortable(rank, WasAt(s), a[n], i[n]) /\ Len(a[n]) = L /\ Members(a[n]) = Members(s)
      BY <1>7, <2>1
  <2>3. a[n + 1] = MergePass(rank, a[n], i[n]) /\ i[n + 1] = 2 * i[n]
      BY <1>3, <1>4, <2>1
  <2>4. QED
      BY <2>2, <2>3, MergePassIs
<1> HIDE DEF S
<1>8. PICK n \in 1 .. L : n = LastPass(s, i) /\ L <= i[n]
    BY <1>5
<1>9. n \in S
    BY <1>6, <1>7, SetInduction
<1>10. PICK t, k : t = a[n] /\ k = i[n] /\ Sortable(rank, WasAt(s), t, k) /\ Len(t) = L /\ Members(t) = Members(s)
    BY <1>9 DEF S
<1>11. t \in Seq(Elements) /\ DOMAIN t = 1 .. L /\ k \in Nat /\ L <= k
    BY <1>8, <1>10 DEF Sortable
<1>12. InOrder(rank, WasAt(s), t)
  <2>1. RunInOrder(rank, WasAt(s), t, k * 0, k * (0 + 1))
      BY <1>10 DEF Sortable, Blocks
  <2>2. k * 0 = 0 /\ k * (0 + 1) = k
      BY <1>11
  <2>3. RunInOrder(rank, WasAt(s), t, 0, k)
      BY <2>1, <2>2
  <2>4. \A m, j \in 1 .. L : 0 < m /\ j <= k
      BY <1>11
  <2>5. QED
      BY <1>10, <1>11, <2>3, <2>4 DEF InOrder, RunInOrder
<1>13. Once(t)
    BY <1>10, BlocksOnce
<1>14. QED
    BY <1>1, <1>2, <1>8, <1>10, <1>11, <1>12, <1>13

Resorted(h, list) ==
    [e \in Elements |->
        IF e \notin Members(list) THEN h[e]
        ELSE LET n == Position(list, e)
             IN  [h[e] EXCEPT !.prev = IF n = 1 THEN NULL ELSE list[n-1],
                              !.next = IF n = Len(list) THEN NULL ELSE list[n+1]]]

LEMMA ResortedFields ==
    ASSUME NEW h \in [Elements -> UT_hash_handle], NEW list \in Seq(Elements), Once(list)
    PROVE  /\ Resorted(h, list) \in [Elements -> UT_hash_handle]
           /\ \A e \in Elements : /\ Resorted(h, list)[e].hashv = h[e].hashv
                                  /\ Resorted(h, list)[e].hh_next = h[e].hh_next
                                  /\ Resorted(h, list)[e].hh_prev = h[e].hh_prev
           /\ \A e \in Members(list) : /\ Resorted(h, list)[e].next = Link(list, Position(list, e))
                                       /\ Resorted(h, list)[e].prev = BackLink(list, Position(list, e))
<1>1. PICK h2 : h2 = Resorted(h, list)
    OBVIOUS
<1>2. ASSUME NEW e \in Elements
      PROVE  /\ h2[e] \in UT_hash_handle /\ h2[e].hashv = h[e].hashv
             /\ h2[e].hh_next = h[e].hh_next /\ h2[e].hh_prev = h[e].hh_prev
             /\ e \in Members(list) => /\ h2[e].next = Link(list, Position(list, e))
                                       /\ h2[e].prev = BackLink(list, Position(list, e))
  <2>1. CASE e \notin Members(list)
    <3>1. h2[e] = h[e]
        BY <1>1, <2>1 DEF Resorted
    <3>2. QED
        BY <2>1, <3>1
  <2>2. CASE e \in Members(list)
    <3>1. PICK nx \in Pointers, pv \in Pointers :
             nx = Link(list, Position(list, e)) /\ pv = BackLink(list, Position(list, e))
        BY <2>2, PositionOf
    <3>2. h2[e] = [h[e] EXCEPT !.prev = pv, !.next = nx]
        BY <1>1, <2>2, <3>1 DEF Resorted, Link, BackLink
    <3>3. h[e] \in UT_hash_handle
        OBVIOUS
    <3>4. QED
        BY <3>1, <3>2, <3>3 DEF UT_hash_handle
  <2>3. QED
      BY <2>1, <2>2
<1>3. h2 = [e \in Elements |-> h2[e]]
    BY <1>1 DEF Resorted
<1>4. Members(list) \subseteq Elements
    BY DEF Members
<1>5. h2 \in [Elements -> UT_hash_handle]
    BY <1>2, <1>3
<1>6. QED
    BY <1>1, <1>2, <1>4, <1>5

Resorting(t, list) == [t EXCEPT !.tail = list[Len(list)]]

LEMMA SortHolds ==
    ASSUME NEW f, NEW hd, NEW t, NEW h, NEW s, Holds(f, hd, t, h, s), s # << >>, NEW rank \in Orders,
           NEW list, list = Sorted(rank, s)
    PROVE  Holds(f, list[1], Resorting(t, list), Resorted(h, list), list) /\ list # << >>
<1>1. PICK t2, h2, S : t2 = Resorting(t, list) /\ h2 = Resorted(h, list) /\ S = Members(s)
    OBVIOUS
<1>2. /\ f \in [Keys -> HashValues] /\ h \in [Elements -> UT_hash_handle]
      /\ s \in Seq(Elements) /\ Once(s)
    BY DEF Holds, Chained
<1>3. /\ t.num_items = Len(s) /\ WholeBuckets(t, h, S) /\ Bounded(t)
      /\ (t.noexpand = 1 <=> t.ineff_expands > 1)
      /\ \A e \in S : h[e].hashv = f[KeyOf[e]]
    BY <1>1 DEF Holds
<1>4. list \in Seq(Elements) /\ Once(list) /\ Len(list) = Len(s) /\ Members(list) = S
    BY <1>1, <1>2, SortedIs
<1>5. list # << >>
  <2>1. Len(s) # 0 /\ Len(<< >>) = 0
      BY <1>2
  <2>2. QED
      BY <1>4, <2>1
<1>6. /\ h2 \in [Elements -> UT_hash_handle]
      /\ \A e \in Elements : /\ h2[e].hashv = h[e].hashv
                             /\ h2[e].hh_next = h[e].hh_next /\ h2[e].hh_prev = h[e].hh_prev
      /\ \A e \in S : /\ h2[e].next = Link(list, Position(list, e))
                      /\ h2[e].prev = BackLink(list, Position(list, e))
    BY <1>1, <1>2, <1>4, ResortedFields
<1>7. S \subseteq Elements
    BY <1>4 DEF Members
<1>8. Chained(list, First(list), Nexts(h2), Prevs(h2))
  <2>1. \A e \in Members(list) : /\ Nexts(h2)[e] = Link(list, Position(list, e))
                                 /\ Prevs(h2)[e] = BackLink(list, Position(list, e))
      BY <1>4, <1>6, <1>7, HandleLinks
  <2>2. QED
      BY <1>4, <2>1, Relinked
<1>9. First(list) = list[1] /\ list[Len(list)] \in Pointers
  <2>1. Len(list) \in 1 .. Len(list)
      BY <1>4, <1>5
  <2>2. QED
      BY <1>4, <1>5, <2>1 DEF First, Pointers
<1>10. IsTable(t)
    BY <1>3 DEF WholeBuckets
<1>11. /\ t2.tail = list[Len(list)] /\ t2.num_items = t.num_items /\ t2.num_buckets = t.num_buckets
       /\ t2.noexpand = t.noexpand /\ t2.ineff_expands = t.ineff_expands /\ t2.buckets = t.buckets
       /\ IsTable(t2)
  <2>1. PICK tl \in Pointers : tl = list[Len(list)] /\ t2 = [t EXCEPT !.tail = tl]
      BY <1>1, <1>9 DEF Resorting
  <2>2. /\ t2.tail = tl /\ t2.num_items = t.num_items /\ t2.num_buckets = t.num_buckets
        /\ t2.noexpand = t.noexpand /\ t2.ineff_expands = t.ineff_expands /\ t2.buckets = t.buckets
        /\ t2 = [tail |-> tl, num_buckets |-> t.num_buckets, num_items |-> t.num_items,
                 ineff_expands |-> t.ineff_expands, noexpand |-> t.noexpand, buckets |-> t.buckets]
      BY <1>10, <2>1 DEF IsTable
  <2>3. IsTable(t2)
      BY <1>10, <2>2 DEF IsTable
  <2>4. QED
      BY <2>1, <2>2, <2>3
<1>12. WholeBuckets(t2, h2, S)
    BY <1>3, <1>6, <1>7, <1>11, BucketsKept
<1>13. Bounded(t2)
  <2>1. \A b \in 0 .. t.num_buckets - 1 : t.buckets[b].count \in Nat
      BY <1>10 DEF IsTable, UT_hash_bucket
  <2>2. \A b \in 0 .. t.num_buckets - 1 :
           /\ t2.buckets[b].expand_mult = t.buckets[b].expand_mult
           /\ t2.buckets[b].count <= t.buckets[b].count
      BY <1>11, <2>1
  <2>3. QED
      BY <1>3, <1>10, <1>11, <2>2, BoundKept
<1>14. Holds(f, list[1], t2, h2, list)
  <2>1. \A e \in S : h2[e].hashv = f[KeyOf[e]]
      BY <1>3, <1>6, <1>7
  <2>2. t2.num_items = Len(list) /\ (t2.noexpand = 1 <=> t2.ineff_expands > 1)
      BY <1>3, <1>4, <1>11
  <2>3. QED
      BY <1>2, <1>4, <1>5, <1>6, <1>8, <1>9, <1>11, <1>12, <1>13, <2>1, <2>2 DEF Holds
<1>15. QED
    BY <1>1, <1>5, <1>14

-----------------------------------------------------------------------------
(* The steps *)

LEMMA Moved ==
    ASSUME NEW s, Holds(HASH_FCN', head', tbl', hh', s)
    PROVE  IInv' /\ AppOrder' = s
<1>1. Chain(head', Nexts(hh')) = s
    BY OrderIs
<1>2. AppOrder' = s
    BY <1>1 DEF AppOrder
<1>3. QED
    BY <1>2 DEF IInv

LEMMA OrderType ==
    ASSUME IInv
    PROVE  /\ AppOrder \in Seq(Elements) /\ Once(AppOrder) /\ Len(AppOrder) \in Nat
           /\ DOMAIN AppOrder = 1 .. Len(AppOrder) /\ (head = NULL <=> AppOrder = << >>)
<1>1. Chained(AppOrder, head, Nexts(hh), Prevs(hh))
    BY DEF IInv, Holds
<1>2. AppOrder \in Seq(Elements) /\ Once(AppOrder)
    BY <1>1 DEF Chained
<1>3. head = NULL <=> AppOrder = << >>
    BY <1>1, HeadIs
<1>4. QED
    BY <1>2, <1>3

TableBefore(hd, t, e) == IF hd = NULL THEN MakeTable(e) ELSE [t EXCEPT !.tail = e]

LEMMA PreparedIs ==
    ASSUME IInv, NEW e \in Elements
    PROVE  /\ Prepared(head, tbl, e) = [TableBefore(head, tbl, e) EXCEPT !.num_items = @ + 1]
           /\ Prepared(head, tbl, e).num_buckets = TableBefore(head, tbl, e).num_buckets
<1>1. PICK t : t = TableBefore(head, tbl, e)
    OBVIOUS
<1>2. Prepared(head, tbl, e) = [t EXCEPT !.num_items = @ + 1]
    BY <1>1 DEF Prepared, TableBefore
<1>3. "num_buckets" \in DOMAIN t
  <2>1. CASE head = NULL
      BY <1>1, <2>1 DEF TableBefore, MakeTable, NoTable
  <2>2. CASE head # NULL
    <3>1. IsTable(tbl)
        BY <2>2, OrderType DEF IInv, Holds, WholeBuckets
    <3>2. "num_buckets" \in DOMAIN tbl
        BY <3>1 DEF IsTable
    <3>3. QED
        BY <1>1, <2>2, <3>2 DEF TableBefore
  <2>3. QED
      BY <2>1, <2>2
<1>4. [t EXCEPT !.num_items = @ + 1].num_buckets = t.num_buckets
    BY <1>3
<1>5. QED
    BY <1>1, <1>2, <1>4

LEMMA AddUnfolds ==
    ASSUME IInv, NEW e \in Elements, Add(e)
    PROVE  \E t1, h1, X :
              /\ t1 = Prepared(head, tbl, e) /\ h1 = Appending(HASH_FCN, tbl, hh, e)
              /\ X = AddToBkt(t1, h1, HASH_TO_BKT(HASH_FCN[KeyOf[e]], t1.num_buckets), e)
              /\ tbl' = X.tbl /\ hh' = X.hh
              /\ head' = (IF head = NULL THEN e ELSE head) /\ HASH_FCN' = HASH_FCN
              /\ e \notin Members(AppOrder)
<1>1. PICK t1, h1, b : /\ t1 = Prepared(head, tbl, e) /\ h1 = Appending(HASH_FCN, tbl, hh, e)
                       /\ b = HASH_TO_BKT(HASH_FCN[KeyOf[e]], t1.num_buckets)
    OBVIOUS
<1>2. /\ t1 = [TableBefore(head, tbl, e) EXCEPT !.num_items = @ + 1]
      /\ b = HASH_TO_BKT(HASH_FCN[KeyOf[e]], TableBefore(head, tbl, e).num_buckets)
    BY <1>1, PreparedIs
<1>3. PICK X : X = AddToBkt(t1, h1, b, e)
    OBVIOUS
<1>4. /\ tbl' = X.tbl /\ hh' = X.hh /\ head' = (IF head = NULL THEN e ELSE head) /\ HASH_FCN' = HASH_FCN
      /\ e \notin Members(AppOrder)
    BY <1>1, <1>2, <1>3 DEF Add, Appending, TableBefore
<1>5. QED
    BY <1>1, <1>3, <1>4

LEMMA AddStep ==
    ASSUME IInv, NEW e \in Elements, Add(e)
    PROVE  IInv' /\ AppOrder' = Append(AppOrder, e) /\ e \notin Members(AppOrder)
<1>1. PICK t1, h1, X :
         /\ t1 = Prepared(head, tbl, e) /\ h1 = Appending(HASH_FCN, tbl, hh, e)
         /\ X = AddToBkt(t1, h1, HASH_TO_BKT(HASH_FCN[KeyOf[e]], t1.num_buckets), e)
         /\ tbl' = X.tbl /\ hh' = X.hh
         /\ head' = (IF head = NULL THEN e ELSE head) /\ HASH_FCN' = HASH_FCN
         /\ e \notin Members(AppOrder)
    BY AddUnfolds
<1>2. Holds(HASH_FCN, head, tbl, hh, AppOrder)
    BY DEF IInv
<1>3. Holds(HASH_FCN, IF head = NULL THEN e ELSE head, X.tbl, X.hh, Append(AppOrder, e))
    BY <1>1, <1>2, AddHolds
<1>4. Holds(HASH_FCN', head', tbl', hh', Append(AppOrder, e))
    BY <1>1, <1>3
<1>5. QED
    BY <1>1, <1>4, Moved

LEMMA DeleteUnfolds ==
    ASSUME NEW e \in Elements, Delete(e)
    PROVE  /\ e \in Members(AppOrder) /\ HASH_FCN' = HASH_FCN
           /\ IF hh[e].prev = NULL /\ hh[e].next = NULL
              THEN head' = NULL /\ tbl' = NoTable /\ hh' = hh
              ELSE /\ head' = IF hh[e].prev = NULL THEN hh[e].next ELSE head
                   /\ tbl' = Uncounted(tbl, hh, e) /\ hh' = Patched(hh, e)
    BY DEF Delete, Uncounted, Patched

LEMMA DeleteStep ==
    ASSUME IInv, NEW e \in Elements, Delete(e)
    PROVE  \E i \in 1 .. Len(AppOrder) : AppOrder[i] = e /\ IInv' /\ AppOrder' = Without(AppOrder, i)
<1>1. e \in Members(AppOrder) /\ HASH_FCN' = HASH_FCN
    BY DeleteUnfolds
<1>2. PICK i \in 1 .. Len(AppOrder) : e = AppOrder[i]
    BY <1>1, OrderType DEF Members
<1>3. Holds(HASH_FCN, head, tbl, hh, AppOrder)
    BY DEF IInv
<1>4. CASE hh[e].prev = NULL /\ hh[e].next = NULL
  <2>1. head' = NULL /\ tbl' = NoTable /\ hh' = hh
      BY <1>4, DeleteUnfolds
  <2>2. Without(AppOrder, i) = << >>
      BY <1>2, <1>3, <1>4, AloneHolds
  <2>3. Holds(HASH_FCN, NULL, NoTable, hh, << >>)
      BY <1>3, EmptyHolds DEF Holds
  <2>4. Holds(HASH_FCN', head', tbl', hh', Without(AppOrder, i))
      BY <1>1, <2>1, <2>2, <2>3
  <2>5. QED
      BY <1>2, <2>4, Moved
<1>5. CASE ~(hh[e].prev = NULL /\ hh[e].next = NULL)
  <2>1. /\ head' = IF hh[e].prev = NULL THEN hh[e].next ELSE head
        /\ tbl' = Uncounted(tbl, hh, e) /\ hh' = Patched(hh, e)
      BY <1>5, DeleteUnfolds
  <2>2. PICK hd2 : hd2 = IF hh[e].prev = NULL THEN hh[e].next ELSE head
      OBVIOUS
  <2>3. Holds(HASH_FCN, hd2, Uncounted(tbl, hh, e), Patched(hh, e), Without(AppOrder, i))
      BY <1>2, <1>3, <1>5, <2>2, DeleteHolds
  <2>4. Holds(HASH_FCN', head', tbl', hh', Without(AppOrder, i))
      BY <1>1, <2>1, <2>2, <2>3
  <2>5. QED
      BY <1>2, <2>4, Moved
<1>6. QED
    BY <1>4, <1>5

LEMMA RanksAreOrders == Ranks \subseteq Orders
    BY UthashAssumption DEF Orders

LEMMA SortUnfolds ==
    ASSUME NEW rank, Sort(rank)
    PROVE  /\ HASH_FCN' = HASH_FCN
           /\ head = NULL => head' = head /\ tbl' = tbl /\ hh' = hh
           /\ head # NULL => /\ head' = Sorted(rank, AppOrder)[1]
                             /\ tbl' = Resorting(tbl, Sorted(rank, AppOrder))
                             /\ hh' = Resorted(hh, Sorted(rank, AppOrder))
    BY DEF Sort, Resorting, Resorted

LEMMA SortStep ==
    ASSUME IInv, NEW rank \in Ranks, Sort(rank)
    PROVE  IInv' /\ AppOrder' = IF AppOrder = << >> THEN << >> ELSE Sorted(rank, AppOrder)
<1>1. Holds(HASH_FCN, head, tbl, hh, AppOrder)
    BY DEF IInv
<1>2. CASE head = NULL
  <2>1. Holds(HASH_FCN', head', tbl', hh', AppOrder)
      BY <1>1, <1>2, SortUnfolds
  <2>2. AppOrder = << >>
      BY <1>2, OrderType
  <2>3. QED
      BY <2>1, <2>2, Moved
<1>3. CASE head # NULL
  <2>1. AppOrder # << >>
      BY <1>3, OrderType
  <2>2. PICK list : list = Sorted(rank, AppOrder)
      OBVIOUS
  <2>3. rank \in Orders
      BY RanksAreOrders
  <2>4. Holds(HASH_FCN, list[1], Resorting(tbl, list), Resorted(hh, list), list)
      BY <1>1, <2>1, <2>2, <2>3, SortHolds
  <2>5. /\ HASH_FCN' = HASH_FCN /\ head' = list[1] /\ tbl' = Resorting(tbl, list)
        /\ hh' = Resorted(hh, list)
      BY <1>3, <2>2, SortUnfolds
  <2>6. Holds(HASH_FCN', head', tbl', hh', list)
      BY <2>4, <2>5
  <2>7. QED
      BY <2>1, <2>2, <2>6, Moved
<1>4. QED
    BY <1>2, <1>3

LEMMA ClearStep ==
    ASSUME IInv, Clear
    PROVE  IInv' /\ AppOrder' = << >>
<1>1. HASH_FCN \in [Keys -> HashValues] /\ hh \in [Elements -> UT_hash_handle]
    BY DEF IInv, Holds
<1>2. Holds(HASH_FCN, NULL, NoTable, hh, << >>)
    BY <1>1, EmptyHolds
<1>3. Holds(HASH_FCN', head', tbl', hh', << >>)
    BY <1>2 DEF Clear
<1>4. QED
    BY <1>3, Moved

LEMMA StutterStep ==
    ASSUME IInv, UNCHANGED vars
    PROVE  IInv' /\ AppOrder' = AppOrder
<1>1. Holds(HASH_FCN', head', tbl', hh', AppOrder)
    BY DEF IInv, vars
<1>2. QED
    BY <1>1, Moved

LEMMA InitHolds ==
    ASSUME Init
    PROVE  IInv /\ AppOrder = << >>
<1>1. hh \in [Elements -> UT_hash_handle]
    BY DEF Init, UT_hash_handle, Pointers
<1>2. Holds(HASH_FCN, head, tbl, hh, << >>)
    BY <1>1, EmptyHolds DEF Init
<1>3. AppOrder = << >>
    BY <1>2, OrderIs DEF AppOrder
<1>4. QED
    BY <1>2, <1>3 DEF IInv

-----------------------------------------------------------------------------
(* The theorems *)

(* Whatever is added, deleted, sorted or cleared, the handles are those of a sequence
   without repetitions, linked both ways, and so are those of every bucket, in which
   are the elements of its hash value; and the weight of the full chains fits. *)
THEOREM Invariance == Spec => []IInv
<1>1. Init => IInv
    BY InitHolds
<1>2. IInv /\ [Next]_vars => IInv'
  <2>1. SUFFICES ASSUME IInv, [Next]_vars
                 PROVE  IInv'
      OBVIOUS
  <2>2. ASSUME NEW e \in Elements, Add(e)
        PROVE  IInv'
      BY <2>1, <2>2, AddStep
  <2>3. ASSUME NEW e \in Elements, Delete(e)
        PROVE  IInv'
      BY <2>1, <2>3, DeleteStep
  <2>4. ASSUME NEW rank \in Ranks, Sort(rank)
        PROVE  IInv'
      BY <2>1, <2>4, SortStep
  <2>5. CASE Clear
      BY <2>1, <2>5, ClearStep
  <2>6. CASE UNCHANGED vars
      BY <2>1, <2>6, StutterStep
  <2>7. QED
      BY <2>1, <2>2, <2>3, <2>4, <2>5, <2>6 DEF Next
<1>3. QED
    BY <1>1, <1>2, PTL DEF Spec

LEMMA TypeHolds == IInv => TypeOK
<1> SUFFICES ASSUME IInv
             PROVE  TypeOK
    OBVIOUS
<1>1. PICK s : s = AppOrder
    OBVIOUS
<1>2. Holds(HASH_FCN, head, tbl, hh, s) /\ s \in Seq(Elements) /\ Once(s) /\ Len(s) \in Nat
      /\ (head = NULL <=> s = << >>)
    BY <1>1, OrderType DEF IInv
<1>3. head \in Pointers /\ hh \in [Elements -> UT_hash_handle]
    BY <1>2, HeadIs DEF Holds
<1>4. Cardinality(Elements) \in Nat /\ Len(s) <= Cardinality(Elements)
    BY <1>2, OnceFits
<1>5. CASE s = << >>
  <2>1. tbl = NoTable /\ head = NULL
      BY <1>2, <1>5 DEF Holds
  <2>2. /\ NoTable.tail = NULL /\ NoTable.num_items = 0 /\ NoTable.ineff_expands = 0
        /\ NoTable.noexpand = 0
      BY DEF NoTable
  <2>3. NULL \in Pointers /\ 0 \in 0 .. Cardinality(Elements)
      BY <1>4 DEF Pointers
  <2>4. QED
      BY <1>3, <2>1, <2>2, <2>3 DEF TypeOK
<1>6. CASE s # << >>
  <2>1. /\ tbl.tail = s[Len(s)] /\ tbl.num_items = Len(s) /\ WholeBuckets(tbl, hh, Members(s))
        /\ tbl.noexpand = 1 <=> tbl.ineff_expands > 1
      BY <1>2, <1>6 DEF Holds
  <2>2. IsTable(tbl)
      BY <2>1 DEF WholeBuckets
  <2>3. /\ tbl.tail \in Pointers /\ tbl.ineff_expands \in Nat /\ tbl.noexpand \in {0, 1}
        /\ tbl.buckets \in [0 .. tbl.num_buckets - 1 -> UT_hash_bucket]
      BY <2>2 DEF IsTable
  <2>4. s[Len(s)] \in Elements
    <3>1. Chained(s, head, Nexts(hh), Prevs(hh))
        BY <1>2 DEF Holds
    <3>2. QED
        BY <1>6, <3>1, HeadIs
  <2>5. tbl # NoTable
    <3>1. NoTable.tail = NULL /\ NULL \notin Elements
        BY UthashAssumption DEF NoTable
    <3>2. QED
        BY <2>1, <2>4, <3>1
  <2>6. tbl.num_items \in 0 .. Cardinality(Elements)
      BY <1>2, <1>4, <2>1
  <2>7. QED
      BY <1>2, <1>3, <1>6, <2>1, <2>3, <2>5, <2>6 DEF TypeOK
<1>7. QED
    BY <1>5, <1>6

(* The table's fields keep their types, there is a table when there is an element, no
   more elements are counted than there are, and expansion is inhibited after two
   ineffective expansions. *)
THEOREM TypeCorrect == Spec => []TypeOK
    BY Invariance, TypeHolds, PTL

LEMMA ChainedIsList ==
    ASSUME NEW s, NEW e, NEW link, NEW back, Chained(s, e, link, back), NEW back2,
           \A x \in Elements : back2[x] = back[x]
    PROVE  IsListOf(s, back2, Members(s))
<1>1. s \in Seq(Elements) /\ Once(s) /\ DOMAIN s = 1 .. Len(s) /\ \A n \in 1 .. Len(s) : s[n] \in Elements
    BY DEF Chained
<1>2. Cardinality(Members(s)) = Len(s)
    BY <1>1, OnceLength
<1>3. \A n \in 1 .. Len(s) : back2[s[n]] = IF n = 1 THEN NULL ELSE s[n - 1]
    BY <1>1 DEF Chained, BackLink
<1>4. QED
    BY <1>1, <1>2, <1>3 DEF IsListOf

LEMMA FsckHolds == IInv => Fsck
<1> SUFFICES ASSUME IInv, head # NULL
             PROVE  Fsck
    BY DEF Fsck
<1>1. PICK s : s = AppOrder
    OBVIOUS
<1>2. Holds(HASH_FCN, head, tbl, hh, s) /\ s # << >>
    BY <1>1, OrderType DEF IInv
<1>3. /\ Chained(s, head, Nexts(hh), Prevs(hh)) /\ tbl.tail = s[Len(s)] /\ tbl.num_items = Len(s)
      /\ WholeBuckets(tbl, hh, Members(s))
    BY <1>2 DEF Holds
<1>4. IsListOf(s, [e \in Elements |-> hh[e].prev], Members(s))
  <2>1. PICK back2 : back2 = [e \in Elements |-> hh[e].prev]
      OBVIOUS
  <2>2. \A x \in Elements : back2[x] = Prevs(hh)[x]
      BY <2>1, HandleLinks
  <2>3. IsListOf(s, back2, Members(s))
      BY <1>3, <2>2, ChainedIsList
  <2>4. QED
      BY <2>1, <2>3
<1>5. DOMAIN tbl.buckets = 0 .. tbl.num_buckets - 1
    BY <1>3 DEF WholeBuckets, IsTable
<1>6. ASSUME NEW b \in DOMAIN tbl.buckets
      PROVE  /\ IsListOf(BucketChain(tbl, hh, b), [e \in Elements |-> hh[e].hh_prev],
                         {e \in Members(s) : HASH_TO_BKT(hh[e].hashv, tbl.num_buckets) = b})
             /\ tbl.buckets[b].count = Len(BucketChain(tbl, hh, b))
  <2>1. PICK back2 : back2 = [e \in Elements |-> hh[e].hh_prev]
      OBVIOUS
  <2>2. \A x \in Elements : back2[x] = HhPrevs(hh)[x]
      BY <2>1, HandleLinks
  <2>3. PICK c : c = BucketChain(tbl, hh, b)
      OBVIOUS
  <2>4. /\ Chained(c, tbl.buckets[b].hh_head, HhNexts(hh), HhPrevs(hh))
        /\ Members(c) = InBucket(hh, tbl.num_buckets, Members(s), b) /\ tbl.buckets[b].count = Len(c)
      BY <1>3, <1>5, <2>3, BucketChainIs
  <2>5. IsListOf(c, back2, Members(c))
      BY <2>2, <2>4, ChainedIsList
  <2>6. QED
      BY <2>1, <2>3, <2>4, <2>5 DEF InBucket
<1>7. QED
    BY <1>1, <1>3, <1>4, <1>6 DEF Fsck

(* What HASH_FSCK checks holds at every step: both chains are whole forwards and
   backwards, every element is in the bucket of its hash value, and all counts are
   right, for any number of elements, any hash function and any sizes. *)
THEOREM FsckCorrect == Spec => []Fsck
    BY Invariance, FsckHolds, PTL

LEMMA ChainsAreBounded == IInv => BoundedChains
<1> SUFFICES ASSUME IInv, head # NULL, tbl.noexpand = 0
             PROVE  BoundedChains
    BY DEF BoundedChains
<1>1. WholeBuckets(tbl, hh, Members(AppOrder)) /\ Bounded(tbl)
    BY OrderType DEF IInv, Holds
<1>2. /\ DOMAIN tbl.buckets = 0 .. tbl.num_buckets - 1
      /\ \A b \in 0 .. tbl.num_buckets - 1 : tbl.buckets[b] \in UT_hash_bucket
    BY <1>1 DEF WholeBuckets, IsTable
<1>3. ASSUME NEW b \in DOMAIN tbl.buckets
      PROVE  tbl.buckets[b].count <= (tbl.buckets[b].expand_mult + 1) * HASH_BKT_CAPACITY_THRESH
  <2>1. tbl.buckets[b].count <= Capacity(tbl.buckets[b])
      BY <1>1, <1>2 DEF Bounded
  <2>2. PICK T \in Nat, m \in Nat : T = HASH_BKT_CAPACITY_THRESH /\ m = tbl.buckets[b].expand_mult
      BY <1>2, CapacityType
  <2>3. T * (m + 1) = (m + 1) * T
      BY <2>2
  <2>4. QED
      BY <2>1, <2>2, <2>3 DEF Capacity
<1>4. QED
    BY <1>3 DEF BoundedChains

(* As long as expansion is not inhibited, no chain is longer than the length at which
   its bucket expands, although its multiplier was set for another number of elements. *)
THEOREM BoundedChainsCorrect == Spec => []BoundedChains
    BY Invariance, ChainsAreBounded, PTL

-----------------------------------------------------------------------------
(* The refinement of HashTable *)

Founds == [k \in Keys |-> Find(k)]

LEMMA FindIs ==
    ASSUME IInv, NEW k \in Keys, head # NULL
    PROVE  \/ Find(k) = NULL /\ \A e \in Members(AppOrder) : KeyOf[e] # k
           \/ Find(k) \in Members(AppOrder) /\ KeyOf[Find(k)] = k
<1>1. PICK S, nb, f : S = Members(AppOrder) /\ nb = tbl.num_buckets /\ f = HASH_FCN
    OBVIOUS
<1>2. /\ WholeBuckets(tbl, hh, S) /\ f \in [Keys -> HashValues]
      /\ \A e \in S : hh[e].hashv = f[KeyOf[e]]
    BY <1>1, OrderType DEF IInv, Holds
<1>3. nb \in Nat /\ nb # 0
    BY <1>1, <1>2 DEF WholeBuckets, IsTable
<1>4. f[k] \in Nat
    BY <1>2, UthashAssumption
<1>5. PICK b \in 0 .. nb - 1 : b = HASH_TO_BKT(f[k], nb)
    BY <1>3, <1>4, BucketExists
<1>6. PICK c : /\ c = BucketChain(tbl, hh, b) /\ c \in Seq(Elements) /\ Members(c) = InBucket(hh, nb, S, b)
    BY <1>1, <1>2, BucketChainIs DEF Chained
<1>7. PICK hits : hits = {n \in DOMAIN c : KeyOf[c[n]] = k}
    OBVIOUS
<1>8. Find(k) = IF hits = {} THEN NULL ELSE c[CHOOSE n \in hits : \A m \in hits : n <= m]
    BY <1>1, <1>5, <1>6, <1>7 DEF Find
<1>9. CASE hits = {}
  <2>1. ASSUME NEW e \in S, KeyOf[e] = k
        PROVE  FALSE
    <3>1. hh[e].hashv = f[k]
        BY <1>2, <2>1
    <3>2. e \in Members(c)
        BY <1>5, <1>6, <3>1 DEF InBucket
    <3>3. PICK n \in DOMAIN c : c[n] = e
        BY <3>2 DEF Members
    <3>4. n \in hits
        BY <1>7, <2>1, <3>3
    <3>5. QED
        BY <1>9, <3>4
  <2>2. QED
      BY <1>1, <1>8, <1>9, <2>1
<1>10. CASE hits # {}
  <2>1. hits \in SUBSET Nat
      BY <1>6, <1>7
  <2>2. \E n \in hits : \A m \in hits : n <= m
      BY <1>10, <2>1, LeastOf
  <2>3. PICK n \in hits : n = CHOOSE l \in hits : \A m \in hits : l <= m
      BY <2>2
  <2>4. Find(k) = c[n]
      BY <1>8, <1>10, <2>3
  <2>5. n \in DOMAIN c /\ KeyOf[c[n]] = k
      BY <1>7
  <2>6. c[n] \in S
    <3>1. c[n] \in Members(c)
        BY <2>5 DEF Members
    <3>2. QED
        BY <1>6, <3>1 DEF InBucket
  <2>7. QED
      BY <1>1, <2>4, <2>5, <2>6
<1>11. QED
    BY <1>9, <1>10

LEMMA LooksUpHolds == IInv => Abstract!LooksUp(AppOrder, Founds)
<1> SUFFICES ASSUME IInv
             PROVE  Abstract!LooksUp(AppOrder, Founds)
    OBVIOUS
<1>1. Abstract!Members(AppOrder) = Members(AppOrder)
    BY DEF Abstract!Members, Members
<1>2. ASSUME NEW k \in Keys
      PROVE  LET match == {e \in Abstract!Members(AppOrder) : KeyOf[e] = k}
             IN  IF match = {} THEN Founds[k] = NULL ELSE Founds[k] \in match
  <2>1. Founds[k] = Find(k)
      BY DEF Founds
  <2>2. CASE head = NULL
    <3>1. Find(k) = NULL
        BY <2>2 DEF Find
    <3>2. AppOrder = << >>
        BY <2>2, OrderType
    <3>3. Members(AppOrder) = {}
        BY <3>2, NoMember
    <3>4. QED
        BY <1>1, <2>1, <3>1, <3>3
  <2>3. CASE head # NULL
      BY <1>1, <2>1, <2>3, FindIs
  <2>4. QED
      BY <2>2, <2>3
<1>3. QED
    BY <1>2 DEF Abstract!LooksUp

LEMMA StableSort ==
    ASSUME NEW rank \in Orders, NEW s \in Seq(Elements), Once(s), s # << >>
    PROVE  Abstract!SortedBy(rank, s, Sorted(rank, s))
<1>1. PICK t, pos : t = Sorted(rank, s) /\ pos = WasAt(s)
    OBVIOUS
<1>2. /\ t \in Seq(Elements) /\ Once(t) /\ Len(t) = Len(s) /\ Members(t) = Members(s)
      /\ InOrder(rank, pos, t)
    BY <1>1, SortedIs
<1>3. pos \in Orders /\ \A n \in 1 .. Len(s) : pos[s[n]] = n
    BY <1>1, WasAtIs
<1>4. /\ DOMAIN s = 1 .. Len(s) /\ DOMAIN t = 1 .. Len(s) /\ Len(s) \in Nat
      /\ \A n \in 1 .. Len(s) : t[n] \in Elements /\ s[n] \in Elements
    BY <1>2
<1>5. ASSUME NEW i \in DOMAIN s, NEW j \in DOMAIN s, NEW m \in DOMAIN t, NEW n \in DOMAIN t,
             i < j, t[m] = s[j], t[n] = s[i], m < n
      PROVE  rank[s[j]] < rank[s[i]]
  <2>1. Before(rank, pos, t[m], t[n])
      BY <1>2, <1>5 DEF InOrder
  <2>2. pos[s[i]] = i /\ pos[s[j]] = j /\ i \in Nat /\ j \in Nat
      BY <1>3, <1>4
  <2>3. ~(pos[s[j]] < pos[s[i]])
      BY <1>5, <2>2
  <2>4. QED
      BY <1>5, <2>1, <2>3 DEF Before
<1>6. ASSUME NEW m \in DOMAIN t, NEW n \in DOMAIN t, m < n
      PROVE  rank[t[m]] <= rank[t[n]]
  <2>1. Before(rank, pos, t[m], t[n])
      BY <1>2, <1>6 DEF InOrder
  <2>2. t[m] \in Elements /\ t[n] \in Elements
      BY <1>4
  <2>3. QED
      BY <1>3, <2>1, <2>2, BeforeIs
<1>7. Abstract!Members(t) = Abstract!Members(s)
    BY <1>2 DEF Abstract!Members, Members
<1>8. Abstract!SortedBy(rank, s, t)
    BY <1>2, <1>5, <1>6, <1>7 DEF Abstract!SortedBy
<1>9. QED
    BY <1>1, <1>8

LEMMA EmptyIsSorted ==
    ASSUME NEW rank
    PROVE  Abstract!SortedBy(rank, << >>, << >>)
<1>1. DOMAIN << >> = {}
    OBVIOUS
<1>2. QED
    BY <1>1 DEF Abstract!SortedBy

LEMMA StepRefines == IInv /\ [Next]_vars => [Abstract!Next]_<<AppOrder, Founds>>
<1> SUFFICES ASSUME IInv, [Next]_vars
             PROVE  [Abstract!Next]_<<AppOrder, Founds>>
    OBVIOUS
<1>1. IInv' => Abstract!LooksUp(AppOrder, Founds)'
    BY LooksUpHolds, PTL
<1>a. IInv' => Abstract!LooksUp(AppOrder', [k \in Keys |-> Find(k)]')
    BY <1>1 DEF Founds
<1>2. ASSUME NEW e \in Elements, Add(e)
      PROVE  Abstract!Next
  <2>1. IInv' /\ AppOrder' = Append(AppOrder, e) /\ e \notin Members(AppOrder)
      BY <1>2, AddStep
  <2>2. Abstract!Add(e)
      BY <2>1 DEF Abstract!Add, Abstract!Members, Members
  <2>3. QED
      BY <1>a, <2>1, <2>2 DEF Abstract!Next
<1>3. ASSUME NEW e \in Elements, Delete(e)
      PROVE  Abstract!Next
  <2>1. PICK i \in 1 .. Len(AppOrder) : AppOrder[i] = e /\ IInv' /\ AppOrder' = Without(AppOrder, i)
      BY <1>3, DeleteStep
  <2>2. i \in DOMAIN AppOrder
      BY OrderType
  <2>3. Abstract!Delete(e)
      BY <2>1, <2>2 DEF Abstract!Delete, Without
  <2>4. QED
      BY <1>a, <2>1, <2>3 DEF Abstract!Next
<1>4. ASSUME NEW rank \in Ranks, Sort(rank)
      PROVE  Abstract!Next
  <2>1. IInv' /\ AppOrder' = IF AppOrder = << >> THEN << >> ELSE Sorted(rank, AppOrder)
      BY <1>4, SortStep
  <2>2. Abstract!SortedBy(rank, AppOrder, AppOrder')
    <3>1. CASE AppOrder = << >>
        BY <2>1, <3>1, EmptyIsSorted
    <3>2. CASE AppOrder # << >>
      <4>1. rank \in Orders
          BY RanksAreOrders
      <4>2. Abstract!SortedBy(rank, AppOrder, Sorted(rank, AppOrder))
          BY <3>2, <4>1, OrderType, StableSort
      <4>3. QED
          BY <2>1, <3>2, <4>2
    <3>3. QED
        BY <3>1, <3>2
  <2>3. Abstract!Sort
      BY <2>2 DEF Abstract!Sort
  <2>4. QED
      BY <1>a, <2>1, <2>3 DEF Abstract!Next
<1>5. CASE Clear
  <2>1. IInv' /\ AppOrder' = << >>
      BY <1>5, ClearStep
  <2>2. Abstract!Clear
      BY <2>1 DEF Abstract!Clear
  <2>3. QED
      BY <1>a, <2>1, <2>2 DEF Abstract!Next
<1>6. CASE UNCHANGED vars
  <2>1. AppOrder' = AppOrder
      BY <1>6, StutterStep
  <2>2. \A k \in Keys : Find(k)' = Find(k)
      BY <1>6 DEF vars, Find, BucketChain
  <2>3. Founds' = Founds
      BY <2>2 DEF Founds
  <2>4. QED
      BY <2>1, <2>3
<1>7. QED
    BY <1>2, <1>3, <1>4, <1>5, <1>6 DEF Next

(* However the buckets are doubled and the chains re-linked, an application sees a
   collection in application order, in which every key is looked up right, and which
   HASH_SORT sorts without changing the order of equals. *)
THEOREM Implements == Spec => IsHashTable
<1>1. Init => Abstract!Init
  <2>1. SUFFICES ASSUME Init
                 PROVE  Abstract!Init
      OBVIOUS
  <2>2. AppOrder = << >> /\ head = NULL
      BY <2>1, InitHolds DEF Init
  <2>3. \A k \in Keys : Find(k) = NULL
      BY <2>2 DEF Find
  <2>4. QED
      BY <2>2, <2>3 DEF Abstract!Init
<1>2. IInv /\ [Next]_vars => [Abstract!Next]_(Abstract!hashvars)
    BY StepRefines DEF Abstract!hashvars, Founds
<1>3. QED
    BY <1>1, <1>2, Invariance, PTL DEF Spec, IsHashTable, Abstract!Spec
=============================================================================
