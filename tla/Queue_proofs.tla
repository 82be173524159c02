---------------------------- MODULE Queue_proofs ----------------------------
(***************************************************************************)
(* Proofs about Queue: for any number of queues, threads and elements, the *)
(* linked lists that pass elements to each other are queues of threads.    *)
(***************************************************************************)
EXTENDS Queue, SequenceTheorems, TLAPS

-----------------------------------------------------------------------------
(* Sequences *)

(* What queue_insert makes of a chain: one more place, at its end. *)
LEMMA AppendPlaces ==
    ASSUME NEW S, NEW s \in Seq(S), NEW x \in S
    PROVE  /\ Append(s, x) \in Seq(S) /\ Append(s, x) # << >>
           /\ Len(s) \in Nat /\ Len(Append(s, x)) = Len(s) + 1
           /\ DOMAIN s = 1 .. Len(s) /\ DOMAIN Append(s, x) = 1 .. Len(s) + 1
           /\ \A n \in 1 .. Len(s) : Append(s, x)[n] = s[n]
           /\ Append(s, x)[Len(s) + 1] = x
BY AppendProperties

(* What queue_remove makes of a chain: its first place is gone. *)
LEMMA TailPlaces ==
    ASSUME NEW S, NEW s \in Seq(S), s # << >>
    PROVE  /\ Tail(s) \in Seq(S) /\ Len(s) \in Nat \ {0} /\ Len(Tail(s)) = Len(s) - 1
           /\ DOMAIN s = 1 .. Len(s) /\ DOMAIN Tail(s) = 1 .. Len(s) - 1
           /\ \A n \in 1 .. Len(s) - 1 : Tail(s)[n] = s[n + 1]
           /\ Head(s) = s[1]
BY HeadTailProperties, EmptySeq

(* A chain has a last place, or none. *)
LEMMA Places ==
    ASSUME NEW S, NEW s \in Seq(S)
    PROVE  /\ DOMAIN s = 1 .. Len(s) /\ Len(s) \in Nat
           /\ s = << >> <=> Len(s) = 0
           /\ \A n \in DOMAIN s : s[n] \in S
BY EmptySeq

(* Without its places, a chain is empty, and so is a sequence of threads. *)
LEMMA EmptyPlaces ==
    /\ DOMAIN << >> = {}
    /\ Len(<< >>) = 0
    /\ \A S : << >> \in Seq(S)
OBVIOUS

-----------------------------------------------------------------------------
(* Each call keeps the lists whole. *)

(* The element that queue_insert takes is in no chain. *)
LEMMA NewElementIsFree ==
    ASSUME IInv, NEW e \in Elements, NewElement(e)
    PROVE  \A q \in Queues : \A n \in DOMAIN chain[q] : chain[q][n] # e
BY DEF IInv, Owned, NewElement

(* queue_insert *)
LEMMA InsertKeeps ==
    ASSUME NULL \notin Elements, IInv,
           NEW q \in Queues, NEW t \in Threads, NEW e \in Elements, Insert(q, t, e)
    PROVE  IInv'
<1> DEFINE c == chain[q]
           d == Append(c, e)
<1>1. /\ c \in Seq(Elements) /\ chain' = [chain EXCEPT ![q] = d] /\ q \in live
      /\ chain \in [Queues -> Seq(Elements)]
    BY DEF IInv, TypeOK, Insert
<1>2. /\ d \in Seq(Elements) /\ d # << >> /\ Len(c) \in Nat /\ Len(d) = Len(c) + 1
      /\ DOMAIN c = 1 .. Len(c) /\ DOMAIN d = 1 .. Len(c) + 1
      /\ \A n \in 1 .. Len(c) : d[n] = c[n]
      /\ d[Len(c) + 1] = e
      /\ c = << >> <=> Len(c) = 0
    BY <1>1, AppendPlaces, Places
<1>3. \A r \in Queues : \A n \in DOMAIN chain[r] : chain[r][n] # e
    BY NewElementIsFree DEF Insert
<1> HIDE DEF c, d
<1>4. /\ chain'[q] = d /\ chain[q] = c
      /\ \A r \in Queues \ {q} : chain'[r] = chain[r]
    BY <1>1 DEF c
<1>5. TypeOK'
  <2>1. chain' \in [Queues -> Seq(Elements)] /\ allocated' \subseteq Elements
      BY <1>1, <1>2 DEF Insert, IInv, TypeOK
  <2>2. next' \in [Elements -> Pointers]
      BY DEF Insert, IInv, TypeOK, Pointers
  <2>3. QED
      BY <2>1, <2>2 DEF Insert, IInv, TypeOK, Pointers
<1>6. (\A r \in Queues \ live : chain[r] = << >>)'
    BY <1>1, <1>4 DEF Insert, IInv
<1>7. Linked'
  <2>1. ASSUME NEW r \in live, r # q
        PROVE  /\ first'[r] = first[r] /\ last'[r] = last[r]
               /\ \A n \in DOMAIN chain[r] : next'[chain[r][n]] = next[chain[r][n]]
    <3>1. r \in Queues /\ first'[r] = first[r] /\ last'[r] = last[r]
        BY <2>1 DEF Insert, IInv, TypeOK
    <3>2. ASSUME NEW n \in DOMAIN chain[r], first[q] # NULL
          PROVE  chain[r][n] # last[q]
      <4>1. c # << >> /\ last[q] = c[Len(c)] /\ Len(c) \in DOMAIN c
          BY <1>1, <1>2, <1>4, <3>2 DEF IInv, Linked
      <4>2. QED
          BY <1>4, <2>1, <3>1, <4>1 DEF IInv, Owned
    <3>3. ASSUME NEW n \in DOMAIN chain[r]
          PROVE  next'[chain[r][n]] = next[chain[r][n]]
      <4>1. chain[r][n] \in Elements /\ chain[r][n] # e
          BY <1>1, <1>3, <3>1, Places
      <4>2. QED
          BY <3>2, <4>1 DEF Insert, IInv, TypeOK
    <3>4. QED
        BY <3>1, <3>3
  <2>2. /\ first'[q] = d[1]
        /\ last'[q] = d[Len(d)]
        /\ \A n \in DOMAIN d : next'[d[n]] = IF n = Len(d) THEN NULL ELSE d[n + 1]
    <3>1. CASE c = << >>
      <4>1. first[q] = NULL
          BY <1>1, <1>4, <3>1 DEF IInv, Linked
      <4>2. first'[q] = e /\ last'[q] = e /\ next'[e] = NULL
          BY <4>1 DEF Insert, IInv, TypeOK
      <4>3. QED
          BY <1>2, <3>1, <4>2
    <3>2. CASE c # << >>
      <4>1. /\ first[q] = c[1] /\ last[q] = c[Len(c)]
            /\ \A n \in DOMAIN c : next[c[n]] = IF n = Len(c) THEN NULL ELSE c[n + 1]
          BY <1>1, <1>4, <3>2 DEF IInv, Linked
      <4>2. /\ \A n \in DOMAIN c : c[n] \in Elements /\ c[n] # e
            /\ 1 \in DOMAIN c /\ Len(c) \in DOMAIN c
          BY <1>1, <1>2, <1>3, <1>4, <3>2, Places
      <4>3. /\ first'[q] = c[1] /\ last'[q] = e
            /\ next'[e] = NULL /\ next'[c[Len(c)]] = e
            /\ \A x \in Elements \ {e, c[Len(c)]} : next'[x] = next[x]
          BY <4>1, <4>2 DEF Insert, IInv, TypeOK
      <4>4. ASSUME NEW n \in DOMAIN c, n # Len(c) PROVE c[n] # c[Len(c)]
          BY <1>4, <4>2, <4>4 DEF IInv, Owned
      <4>5. \A n \in 1 .. Len(c) - 1 : next'[c[n]] = c[n + 1]
          BY <1>2, <4>1, <4>2, <4>3, <4>4
      <4>6. QED
          BY <1>2, <4>2, <4>3, <4>5
    <3>3. QED
        BY <3>1, <3>2
  <2>3. live' = live /\ live \subseteq Queues
      BY DEF Insert, IInv, TypeOK
  <2>4. ASSUME NEW r \in live, r # q
        PROVE  LET b == chain'[r] IN
               /\ first'[r] = IF b = << >> THEN NULL ELSE b[1]
               /\ b # << >> => last'[r] = b[Len(b)]
               /\ \A n \in DOMAIN b : next'[b[n]] = IF n = Len(b) THEN NULL ELSE b[n + 1]
    <3>1. chain'[r] = chain[r]
        BY <1>4, <2>3, <2>4
    <3>2. QED
        BY <2>1, <2>4, <3>1 DEF IInv, Linked
  <2>5. QED
      BY <1>2, <1>4, <2>2, <2>3, <2>4 DEF Linked
<1>8. Owned'
  <2>1. /\ empty_element_ptr' = NULL
        /\ allocated' = allocated \cup {e}
      BY DEF Insert
  <2>2. ASSUME NEW r \in Queues, NEW n \in DOMAIN chain'[r]
        PROVE  chain'[r][n] \in allocated' /\ chain'[r][n] # empty_element_ptr'
    <3>1. CASE r = q
      <4>1. \A k \in DOMAIN c : c[k] \in allocated
          BY <1>4 DEF IInv, Owned
      <4>2. \A k \in DOMAIN d : d[k] \in Elements /\ d[k] \in allocated'
          BY <1>2, <2>1, <4>1, Places
      <4>3. QED
          BY <1>4, <2>1, <2>2, <3>1, <4>2
    <3>2. CASE r # q
      <4>1. n \in DOMAIN chain[r] /\ chain'[r][n] = chain[r][n]
          BY <1>4, <2>2, <3>2
      <4>2. chain[r][n] \in Elements /\ chain[r][n] \in allocated
          BY <1>1, <4>1, Places DEF IInv, Owned
      <4>3. QED
          BY <2>1, <4>1, <4>2
    <3>3. QED
        BY <3>1, <3>2
  <2>3. ASSUME NEW r \in Queues, NEW s \in Queues,
               NEW m \in DOMAIN chain'[r], NEW n \in DOMAIN chain'[s],
               chain'[r][m] = chain'[s][n]
        PROVE  r = s /\ m = n
    <3>1. \A x \in Queues, k \in Nat : k \in DOMAIN chain'[x] =>
              \/ k \in DOMAIN chain[x] /\ chain'[x][k] = chain[x][k]
              \/ x = q /\ k = Len(c) + 1 /\ chain'[x][k] = e
        BY <1>2, <1>4
    <3>2. m \in Nat /\ n \in Nat
        BY <1>1, <1>2, <1>4, Places
    <3>3. QED
        BY <1>3, <2>3, <3>1, <3>2 DEF IInv, Owned
  <2>4. QED
      BY <2>1, <2>2, <2>3 DEF Owned
<1>9. QED
    BY <1>5, <1>6, <1>7, <1>8 DEF IInv

(* queue_remove *)
LEMMA RemoveKeeps ==
    ASSUME NULL \notin Elements, IInv, NEW q \in Queues, Remove(q)
    PROVE  /\ IInv'
           /\ chain[q] # << >> /\ first[q] = chain[q][1]
<1> DEFINE c == chain[q]
           d == Tail(c)
<1>1. /\ c \in Seq(Elements) /\ chain' = [chain EXCEPT ![q] = d] /\ q \in live
      /\ chain \in [Queues -> Seq(Elements)] /\ first[q] # NULL
    BY DEF IInv, TypeOK, Remove
<1>2. /\ c # << >> /\ first[q] = c[1]
      /\ \A n \in DOMAIN c : next[c[n]] = IF n = Len(c) THEN NULL ELSE c[n + 1]
      /\ last[q] = c[Len(c)]
    BY <1>1 DEF IInv, Linked
<1>3. /\ d \in Seq(Elements) /\ Len(c) \in Nat \ {0} /\ Len(d) = Len(c) - 1
      /\ DOMAIN c = 1 .. Len(c) /\ DOMAIN d = 1 .. Len(c) - 1
      /\ \A n \in 1 .. Len(c) - 1 : d[n] = c[n + 1]
      /\ d = << >> <=> Len(d) = 0
      /\ c[1] \in Elements
  <2>1. /\ d \in Seq(Elements) /\ Len(c) \in Nat \ {0} /\ Len(d) = Len(c) - 1
        /\ DOMAIN c = 1 .. Len(c) /\ DOMAIN d = 1 .. Len(c) - 1
        /\ \A n \in 1 .. Len(c) - 1 : d[n] = c[n + 1]
      BY <1>1, <1>2, TailPlaces
  <2> HIDE DEF c, d
  <2>2. d = << >> <=> Len(d) = 0
      BY <2>1, Places
  <2>3. c[1] \in Elements
      BY <1>1, <2>1, Places
  <2>4. QED
      BY <2>1, <2>2, <2>3
<1> HIDE DEF c, d
<1>4. /\ chain'[q] = d /\ chain[q] = c
      /\ \A r \in Queues \ {q} : chain'[r] = chain[r]
    BY <1>1 DEF c
<1>5. TypeOK'
  <2>1. chain' \in [Queues -> Seq(Elements)] /\ allocated' \subseteq Elements
      BY <1>1, <1>3 DEF Remove, IInv, TypeOK
  <2>2. /\ next' \in [Elements -> Pointers] /\ first' \in [Queues -> Pointers]
        /\ removed' \in Threads \cup {NULL} /\ thread' \in [Elements -> Threads \cup {NULL}]
        /\ empty_element_ptr' \in Pointers
      BY <1>2, <1>3 DEF Remove, IInv, TypeOK, Pointers
  <2>3. QED
      BY <2>1, <2>2 DEF Remove, IInv, TypeOK
<1>6. (\A r \in Queues \ live : chain[r] = << >>)'
    BY <1>1, <1>4 DEF Remove, IInv
<1>7. \A r \in Queues : \A n \in DOMAIN chain'[r] :
          \E m \in DOMAIN chain[r] :
              /\ m = IF r = q THEN n + 1 ELSE n
              /\ chain'[r][n] = chain[r][m]
              /\ chain[r][m] # c[1]
  <2>1. ASSUME NEW n \in DOMAIN d PROVE n + 1 \in DOMAIN c /\ d[n] = c[n + 1] /\ c[n + 1] # c[1]
    <3>1. n + 1 \in DOMAIN c /\ 1 \in DOMAIN c /\ n + 1 # 1 /\ d[n] = c[n + 1]
        BY <1>3
    <3>2. QED
        BY <1>1, <1>4, <3>1 DEF IInv, TypeOK, Owned
  <2>2. ASSUME NEW r \in Queues \ {q}, NEW n \in DOMAIN chain[r] PROVE chain[r][n] # c[1]
    <3>1. 1 \in DOMAIN c
        BY <1>3
    <3>2. QED
        BY <1>4, <3>1 DEF IInv, Owned
  <2>3. QED
      BY <1>4, <2>1, <2>2
<1>8. \A x \in Elements \ {c[1]} : next'[x] = next[x]
    BY <1>2 DEF Remove, IInv, TypeOK
<1>9. Linked'
  <2>1. live' = live /\ live \subseteq Queues /\ last' = last
      BY DEF Remove, IInv, TypeOK
  <2>2. ASSUME NEW r \in live, r # q
        PROVE  LET b == chain'[r] IN
               /\ first'[r] = IF b = << >> THEN NULL ELSE b[1]
               /\ b # << >> => last'[r] = b[Len(b)]
               /\ \A n \in DOMAIN b : next'[b[n]] = IF n = Len(b) THEN NULL ELSE b[n + 1]
    <3>1. chain'[r] = chain[r] /\ first'[r] = first[r]
        BY <1>4, <2>1, <2>2 DEF Remove, IInv, TypeOK
    <3>2. \A n \in DOMAIN chain[r] : chain[r][n] \in Elements \ {c[1]}
        BY <1>1, <1>7, <2>1, <2>2, <3>1, Places
    <3>3. QED
        BY <1>8, <2>1, <2>2, <3>1, <3>2 DEF IInv, Linked
  <2>3. /\ first'[q] = IF d = << >> THEN NULL ELSE d[1]
        /\ d # << >> => last'[q] = d[Len(d)]
        /\ \A n \in DOMAIN d : next'[d[n]] = IF n = Len(d) THEN NULL ELSE d[n + 1]
    <3>1. first'[q] = next[c[1]]
        BY <1>2 DEF Remove, IInv, TypeOK
    <3>2. next[c[1]] = IF Len(c) = 1 THEN NULL ELSE c[2]
        BY <1>2, <1>3
    <3>3. \A n \in DOMAIN d : d[n] \in Elements \ {c[1]} /\ n + 1 \in DOMAIN c
        BY <1>1, <1>3, <1>4, <1>7, Places
    <3>4. \A n \in DOMAIN d : next'[d[n]] = next[c[n + 1]]
        BY <1>3, <1>8, <3>3
    <3>5. QED
        BY <1>2, <1>3, <2>1, <3>1, <3>2, <3>3, <3>4
  <2>4. QED
      BY <1>4, <2>1, <2>2, <2>3 DEF Linked
<1>10. Owned'
  <2>1. /\ \/ empty_element_ptr' = empty_element_ptr
           \/ empty_element_ptr' = c[1]
        /\ allocated \ {c[1]} \subseteq allocated'
        /\ empty_element_ptr' \in allocated' \cup {NULL}
    <3>1. c[1] \in allocated /\ c[1] # empty_element_ptr /\ empty_element_ptr \in allocated \cup {NULL}
        BY <1>3, <1>4 DEF IInv, Owned
    <3>2. QED
        BY <1>2, <3>1 DEF Remove
  <2>2. \A r \in Queues : \A n \in DOMAIN chain'[r] :
            chain'[r][n] \in allocated' /\ chain'[r][n] # empty_element_ptr'
      BY <1>7, <2>1 DEF IInv, Owned
  <2>3. ASSUME NEW r \in Queues, NEW s \in Queues,
               NEW m \in DOMAIN chain'[r], NEW n \in DOMAIN chain'[s],
               chain'[r][m] = chain'[s][n]
        PROVE  r = s /\ m = n
    <3>1. PICK i \in DOMAIN chain[r] :
              i = (IF r = q THEN m + 1 ELSE m) /\ chain'[r][m] = chain[r][i]
        BY <1>7
    <3>2. PICK j \in DOMAIN chain[s] :
              j = (IF s = q THEN n + 1 ELSE n) /\ chain'[s][n] = chain[s][j]
        BY <1>7
    <3>3. r = s /\ i = j
      <4>1. chain[r][i] = chain[s][j]
          BY <2>3, <3>1, <3>2
      <4>2. Owned
          BY DEF IInv
      <4>3. QED
          BY <4>1, <4>2 DEF Owned
    <3>4. m \in Nat /\ n \in Nat
        BY <1>1, <1>3, <1>4, Places
    <3>5. QED
        BY <3>1, <3>2, <3>3, <3>4
  <2>4. QED
      BY <2>1, <2>2, <2>3 DEF Owned
<1>11. QED
    BY <1>2, <1>4, <1>5, <1>6, <1>9, <1>10 DEF IInv

(* create_queue and delete_queue *)
LEMMA EmptyKeeps ==
    ASSUME NULL \notin Elements, IInv, NEW q \in Queues, CreateQueue(q) \/ DeleteQueue(q)
    PROVE  IInv'
<1>1. /\ chain' = [chain EXCEPT ![q] = << >>] /\ chain \in [Queues -> Seq(Elements)]
      /\ next' = next /\ thread' = thread
    BY DEF IInv, TypeOK, CreateQueue, DeleteQueue
<1>2. /\ chain'[q] = << >> /\ DOMAIN chain'[q] = {}
      /\ \A r \in Queues \ {q} : chain'[r] = chain[r]
    BY <1>1, EmptyPlaces
<1>3. TypeOK'
  <2>1. chain' \in [Queues -> Seq(Elements)]
      BY <1>1, EmptyPlaces
  <2>2. QED
      BY <2>1 DEF IInv, TypeOK, CreateQueue, DeleteQueue, Pointers
<1>4. (\A r \in Queues \ live : chain[r] = << >>)'
    BY <1>2 DEF IInv, CreateQueue, DeleteQueue
<1>5. Linked'
  <2>1. ASSUME NEW r \in live', r # q
        PROVE  /\ r \in live /\ r \in Queues
               /\ first'[r] = first[r] /\ last'[r] = last[r] /\ chain'[r] = chain[r]
      BY <1>2, <2>1 DEF IInv, TypeOK, CreateQueue, DeleteQueue
  <2>2. q \in live' => first'[q] = NULL
      BY DEF IInv, TypeOK, CreateQueue, DeleteQueue
  <2>3. QED
      BY <1>1, <1>2, <2>1, <2>2 DEF IInv, Linked
<1>6. Owned'
  <2>1. ASSUME NEW r \in Queues \ {q}, NEW n \in DOMAIN chain[r]
        PROVE  chain[r][n] \in allocated'
    <3>1. chain[r][n] \in allocated
        BY DEF IInv, Owned
    <3>2. chain[r][n] \notin Members(chain[q])
        BY DEF IInv, Owned, Members
    <3>3. QED
        BY <3>1, <3>2 DEF CreateQueue, DeleteQueue
  <2>2. /\ empty_element_ptr' \in {empty_element_ptr, NULL}
        /\ empty_element_ptr' \in allocated' \cup {NULL}
    <3>1. empty_element_ptr \notin Members(chain[q])
        BY DEF IInv, Owned, Members
    <3>2. QED
        BY <3>1 DEF IInv, Owned, CreateQueue, DeleteQueue
  <2>3. \A r \in Queues \ {q} : \A n \in DOMAIN chain[r] : chain[r][n] # NULL
      BY <1>1, Places
  <2>4. \A r \in Queues : \A n \in DOMAIN chain'[r] :
            chain'[r][n] \in allocated' /\ chain'[r][n] # empty_element_ptr'
      BY <1>2, <2>1, <2>2, <2>3 DEF IInv, Owned
  <2>5. \A r, s \in Queues : \A m \in DOMAIN chain'[r], n \in DOMAIN chain'[s] :
            chain'[r][m] = chain'[s][n] => r = s /\ m = n
      BY <1>2 DEF IInv, Owned
  <2>6. QED
      BY <2>2, <2>4, <2>5 DEF Owned
<1>7. QED
    BY <1>3, <1>4, <1>5, <1>6 DEF IInv

(* No queue yet, and every list is whole. *)
LEMMA InitHolds == Init => IInv
BY EmptyPlaces DEF Init, IInv, TypeOK, Linked, Owned, Pointers

(* The lists are whole in every reachable state: no element is in two queues, or in a
   queue and kept back or freed, and every queue is reached from its first element
   (queue.c 10-82). *)
THEOREM ListsWhole == ASSUME NULL \notin Elements PROVE Spec => []IInv
<1>1. ASSUME IInv, [Next]_vars PROVE IInv'
  <2>1. CASE UNCHANGED vars
      BY <1>1, <2>1 DEF vars, lists, elements, IInv, TypeOK, Linked, Owned
  <2>2. CASE Next
      BY <1>1, <2>2, InsertKeeps, RemoveKeeps, EmptyKeeps DEF Next
  <2>3. QED
      BY <1>1, <2>1, <2>2
<1>2. QED
    BY <1>1, InitHolds, PTL DEF Spec

-----------------------------------------------------------------------------
(* Each call does what the abstract specification says. *)

(* The threads in the elements of a chain are a sequence as long as the chain. *)
LEMMA ContentPlaces ==
    ASSUME NEW T, NEW c \in Seq(Elements), NEW f \in [Elements -> T],
           NEW s, s = [n \in DOMAIN c |-> f[c[n]]]
    PROVE  /\ s \in Seq(T) /\ Len(s) = Len(c) /\ Len(c) \in Nat
           /\ DOMAIN c = 1 .. Len(c)
           /\ \A n \in 1 .. Len(c) : s[n] = f[c[n]]
<1>1. /\ DOMAIN c = 1 .. Len(c) /\ Len(c) \in Nat
      /\ \A n \in DOMAIN c : c[n] \in Elements
    BY Places
<1>2. s \in [1 .. Len(c) -> T]
    BY <1>1
<1>3. s \in Seq(T)
    BY <1>1, <1>2, SeqDef
<1>4. Len(s) = Len(c)
    BY <1>1, <1>2, <1>3, LenProperties
<1>5. QED
    BY <1>1, <1>3, <1>4

(* A queue whose chain and whose elements' threads stay has the same threads. *)
LEMMA SameContent ==
    ASSUME NEW r \in Queues, chain'[r] = chain[r],
           \A n \in DOMAIN chain[r] : thread'[chain[r][n]] = thread[chain[r][n]]
    PROVE  Content'[r] = Content[r]
BY DEF Content

(* queue_insert appends its thread to one queue. *)
LEMMA InsertImplements ==
    ASSUME NULL \notin Elements, IInv,
           NEW q \in Queues, NEW t \in Threads, NEW e \in Elements, Insert(q, t, e)
    PROVE  Abstract!Insert(q, t)
<1> DEFINE s == Content[q]
           T == Threads \cup {NULL}
<1>1. /\ IInv' /\ TypeOK /\ TypeOK'
      /\ chain[q] \in Seq(Elements) /\ chain'[q] = Append(chain[q], e)
      /\ \A r \in Queues \ {q} : chain'[r] = chain[r]
      /\ thread'[e] = t /\ \A x \in Elements \ {e} : thread'[x] = thread[x]
      /\ removed' = NULL
    BY InsertKeeps DEF IInv, TypeOK, Insert
<1>2. \A r \in Queues : \A n \in DOMAIN chain[r] : chain[r][n] \in Elements \ {e}
    BY NewElementIsFree, Places DEF Insert, IInv, TypeOK
<1>3. ASSUME NEW r \in Queues \ {q} PROVE Content'[r] = Content[r]
    BY <1>1, <1>2, SameContent
<1>4. Content'[q] = Append(s, t)
  <2>1. /\ s \in Seq(T) /\ Len(s) = Len(chain[q]) /\ Len(s) \in Nat
        /\ DOMAIN chain[q] = 1 .. Len(s)
        /\ \A n \in 1 .. Len(s) : s[n] = thread[chain[q][n]]
    <3>1. s = [n \in DOMAIN chain[q] |-> thread[chain[q][n]]]
        BY DEF Content
    <3>2. chain[q] \in Seq(Elements) /\ thread \in [Elements -> T]
        BY <1>1 DEF TypeOK
    <3>3. QED
        BY <3>1, <3>2, ContentPlaces
  <2>2. /\ Content'[q] \in Seq(T) /\ Len(Content'[q]) = Len(chain'[q])
        /\ \A n \in 1 .. Len(chain'[q]) : Content'[q][n] = thread'[chain'[q][n]]
    <3>1. Content'[q] = [n \in DOMAIN chain'[q] |-> thread'[chain'[q][n]]]
        BY DEF Content
    <3>2. chain'[q] \in Seq(Elements) /\ thread' \in [Elements -> T]
        BY <1>1 DEF TypeOK
    <3>3. QED
        BY <3>1, <3>2, ContentPlaces
  <2>3. /\ Append(s, t) \in Seq(T) /\ Len(Append(s, t)) = Len(s) + 1
        /\ \A n \in 1 .. Len(s) : Append(s, t)[n] = s[n]
        /\ Append(s, t)[Len(s) + 1] = t
      BY <2>1, AppendPlaces
  <2>4. /\ Len(chain'[q]) = Len(s) + 1
        /\ \A n \in 1 .. Len(s) : chain'[q][n] = chain[q][n]
        /\ chain'[q][Len(s) + 1] = e
      BY <1>1, <2>1, AppendPlaces
  <2>5. \A n \in 1 .. Len(s) + 1 : Content'[q][n] = Append(s, t)[n]
      BY <1>1, <1>2, <2>1, <2>2, <2>3, <2>4
  <2>6. QED
      BY <2>2, <2>3, <2>4, <2>5, SeqEqual
<1>5. Content' = [Content EXCEPT ![q] = Append(s, t)]
    BY <1>3, <1>4 DEF Content
<1>6. QED
    BY <1>1, <1>5 DEF Abstract!Insert

(* queue_remove takes the first thread from one queue, and returns it. *)
LEMMA RemoveImplements ==
    ASSUME NULL \notin Elements, IInv, NEW q \in Queues, Remove(q)
    PROVE  Abstract!Remove(q)
<1> DEFINE s == Content[q]
           T == Threads \cup {NULL}
           x == chain[q][1]
<1>1. /\ TypeOK /\ TypeOK' /\ chain[q] \in Seq(Elements)
      /\ chain[q] # << >> /\ first[q] = x /\ chain'[q] = Tail(chain[q])
      /\ \A r \in Queues \ {q} : chain'[r] = chain[r]
    BY RemoveKeeps DEF IInv, TypeOK, Remove
<1>2. /\ removed' = thread[x]
      /\ \A y \in Elements \ {x} : thread'[y] = thread[y]
    BY <1>1 DEF Remove, TypeOK
<1>3. /\ Tail(chain[q]) \in Seq(Elements) /\ Len(chain[q]) \in Nat \ {0}
      /\ Len(chain'[q]) = Len(chain[q]) - 1
      /\ \A n \in 1 .. Len(chain[q]) - 1 : chain'[q][n] = chain[q][n + 1]
    BY <1>1, TailPlaces
<1>4. /\ s \in Seq(T) /\ Len(s) = Len(chain[q]) /\ DOMAIN chain[q] = 1 .. Len(s)
      /\ \A n \in 1 .. Len(s) : s[n] = thread[chain[q][n]]
  <2>1. s = [n \in DOMAIN chain[q] |-> thread[chain[q][n]]]
      BY DEF Content
  <2>2. chain[q] \in Seq(Elements) /\ thread \in [Elements -> T]
      BY <1>1 DEF TypeOK
  <2>3. QED
      BY <2>1, <2>2, ContentPlaces
<1>5. \A r \in Queues : \A n \in DOMAIN chain[r] :
          r # q \/ n # 1 => chain[r][n] \in Elements \ {x}
    BY <1>1, <1>3, <1>4, Places DEF IInv, TypeOK, Owned
<1>6. ASSUME NEW r \in Queues \ {q} PROVE Content'[r] = Content[r]
    BY <1>1, <1>2, <1>5, SameContent
<1>7. /\ s # << >> /\ Head(s) = s[1] /\ Len(Tail(s)) = Len(s) - 1 /\ Tail(s) \in Seq(T)
      /\ \A n \in 1 .. Len(s) - 1 : Tail(s)[n] = s[n + 1]
  <2>1. s # << >>
      BY <1>3, <1>4, EmptyPlaces
  <2>2. QED
      BY <1>4, <2>1, TailPlaces
<1>8. Content'[q] = Tail(s)
  <2>1. /\ Content'[q] \in Seq(T) /\ Len(Content'[q]) = Len(chain'[q])
        /\ \A n \in 1 .. Len(chain'[q]) : Content'[q][n] = thread'[chain'[q][n]]
    <3>1. Content'[q] = [n \in DOMAIN chain'[q] |-> thread'[chain'[q][n]]]
        BY DEF Content
    <3>2. chain'[q] \in Seq(Elements) /\ thread' \in [Elements -> T]
        BY <1>1 DEF TypeOK
    <3>3. QED
        BY <3>1, <3>2, ContentPlaces
  <2>2. ASSUME NEW n \in 1 .. Len(s) - 1 PROVE Content'[q][n] = Tail(s)[n]
    <3>1. n + 1 \in 1 .. Len(s) /\ n + 1 # 1
        BY <1>3, <1>4, <2>2
    <3>2. /\ Content'[q][n] = thread'[chain[q][n + 1]]
          /\ Tail(s)[n] = thread[chain[q][n + 1]]
        BY <1>3, <1>4, <1>7, <2>1, <2>2, <3>1
    <3>3. chain[q][n + 1] \in Elements \ {x}
        BY <1>4, <1>5, <3>1
    <3>4. QED
        BY <1>2, <3>2, <3>3
  <2>3. Len(Content'[q]) = Len(s) - 1
      BY <1>3, <1>4, <2>1
  <2>4. \A n \in 1 .. Len(Content'[q]) : Content'[q][n] = Tail(s)[n]
      BY <2>2, <2>3
  <2> DEFINE rest == Tail(s)
             here == Content'[q]
  <2>5. /\ here \in Seq(T) /\ rest \in Seq(T) /\ Len(here) = Len(rest)
        /\ \A n \in 1 .. Len(here) : here[n] = rest[n]
      BY <1>7, <2>1, <2>3, <2>4
  <2> HIDE DEF rest, here
  <2>6. here = rest
      BY <2>5, SeqEqual
  <2>7. QED
      BY <2>6 DEF rest, here
<1>9. Content' = [Content EXCEPT ![q] = Tail(s)]
    BY <1>6, <1>8 DEF Content
<1>10. removed' = Head(s)
    BY <1>2, <1>3, <1>4, <1>7
<1>11. QED
    BY <1>7, <1>9, <1>10 DEF Abstract!Remove

(* create_queue and delete_queue leave one queue empty, and the others alone. *)
LEMMA EmptyImplements ==
    ASSUME IInv, NEW q \in Queues, CreateQueue(q) \/ DeleteQueue(q)
    PROVE  Abstract!Empty(q)
<1>1. /\ chain' = [chain EXCEPT ![q] = << >>] /\ chain \in [Queues -> Seq(Elements)]
      /\ thread' = thread /\ removed' = NULL
    BY DEF IInv, TypeOK, CreateQueue, DeleteQueue
<1>2. \A r \in Queues \ {q} : Content'[r] = Content[r]
    BY <1>1, SameContent
<1>3. Content'[q] = << >>
    BY <1>1, EmptyPlaces DEF Content
<1>4. Content' = [Content EXCEPT ![q] = << >>]
    BY <1>2, <1>3 DEF Content
<1>5. QED
    BY <1>1, <1>4 DEF Abstract!Empty

(* The linked lists of queue.c are first-in, first-out queues of threads, which do not
   see each other although elements pass from one to another (queue.c 10-82). *)
THEOREM Implements == ASSUME NULL \notin Elements PROVE Spec => AreThreadQueues
<1>1. Init => Abstract!Init
    BY EmptyPlaces DEF Init, Abstract!Init, Content
<1>2. ASSUME IInv, [Next]_vars PROVE [Abstract!Next]_(Abstract!queuevars)
  <2>1. CASE UNCHANGED vars
      BY <2>1 DEF vars, lists, elements, Abstract!queuevars, Content
  <2>2. CASE Next
      BY <1>2, <2>2, InsertImplements, RemoveImplements, EmptyImplements DEF Next, Abstract!Next
  <2>3. QED
      BY <1>2, <2>1, <2>2
<1>3. QED
    BY <1>1, <1>2, ListsWhole, PTL DEF Spec, AreThreadQueues, Abstract!Spec

=============================================================================
