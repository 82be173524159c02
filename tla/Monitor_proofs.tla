--------------------------- MODULE Monitor_proofs ---------------------------
(***************************************************************************)
(* Proofs about Monitor: for any number of client threads, with or without *)
(* a clock, and with the code's mutex as well as the promised one: who has *)
(* never entered through line 491 executes inside only as the owner of the *)
(* mutex, no thread is lost, and the library crashes only when all its     *)
(* clients wait.                                                           *)
(***************************************************************************)
EXTENDS Monitor, FiniteSetTheorems, SequenceTheorems, TLAPS

-----------------------------------------------------------------------------
(* How often a thread is in a queue *)

Is(x, t) == IF x = t THEN 1 ELSE 0

(* A thread is found in a queue a whole number of times, zero if it is not in it. *)
LEMMA PlacesType ==
    ASSUME NEW S, NEW q \in Seq(S), NEW t
    PROVE  /\ IsFiniteSet({k \in DOMAIN q : q[k] = t})
           /\ Places(t, q) \in Nat
           /\ Places(t, q) = 0 <=> t \notin Elements(q)
<1> DEFINE P == {k \in DOMAIN q : q[k] = t}
<1>1. IsFiniteSet(1 .. Len(q)) /\ P \subseteq 1 .. Len(q)
    BY FS_Interval
<1>2. IsFiniteSet(P)
    BY <1>1, FS_Subset
<1>3. Places(t, q) = Cardinality(P) /\ (P = {} <=> t \notin Elements(q))
    BY DEF Places, Elements
<1> HIDE DEF P
<1>4. Places(t, q) \in Nat /\ (Places(t, q) = 0 <=> P = {})
    BY <1>2, <1>3, FS_CardinalityType, FS_EmptySet
<1>5. QED
    BY <1>2, <1>3, <1>4 DEF P

(* An empty queue holds nobody. *)
LEMMA PlacesEmpty == \A t : Places(t, << >>) = 0
<1>1. ASSUME NEW t PROVE {k \in DOMAIN << >> : << >>[k] = t} = {}
    OBVIOUS
<1>2. QED
    BY <1>1, FS_EmptySet DEF Places

(* In two queues one behind the other a thread is found as often as in both. *)
LEMMA PlacesConcat ==
    ASSUME NEW S, NEW p \in Seq(S), NEW q \in Seq(S), NEW t
    PROVE  /\ p \o q \in Seq(S)
           /\ Places(t, p \o q) = Places(t, p) + Places(t, q)
<1> DEFINE r == p \o q
           P == {k \in DOMAIN p : p[k] = t}
           Q == {k \in DOMAIN q : q[k] = t}
           R == {k \in DOMAIN r : r[k] = t}
           B == {k \in R : k > Len(p)}
           f == [k \in Q |-> k + Len(p)]
<1>1. /\ r \in Seq(S) /\ Len(r) = Len(p) + Len(q)
      /\ \A i \in 1 .. Len(p) + Len(q) : r[i] = IF i <= Len(p) THEN p[i] ELSE q[i - Len(p)]
      /\ Len(p) \in Nat /\ Len(q) \in Nat
      /\ DOMAIN p = 1 .. Len(p) /\ DOMAIN q = 1 .. Len(q) /\ DOMAIN r = 1 .. Len(p) + Len(q)
    BY ConcatProperties
<1>2. IsFiniteSet(P) /\ IsFiniteSet(Q) /\ IsFiniteSet(R)
    BY <1>1, PlacesType
<1> HIDE DEF r
<1>3. R = P \cup B /\ P \cap B = {}
    BY <1>1
<1>4. IsFiniteSet(B)
    BY <1>2, FS_Subset
<1>5. f \in Bijection(Q, B)
  <2>1. f \in [Q -> B]
      BY <1>1
  <2>2. \A b \in B : \E k \in Q : f[k] = b
    <3>1. ASSUME NEW b \in B PROVE b - Len(p) \in Q /\ f[b - Len(p)] = b
        BY <1>1, <3>1
    <3>2. QED
        BY <3>1
  <2>3. \A j, k \in Q : f[j] = f[k] => j = k
      BY <1>1
  <2> HIDE DEF f, Q, B
  <2>4. f \in Injection(Q, B)
      BY <2>1, <2>3 DEF Injection, IsInjective
  <2>5. f \in Surjection(Q, B)
      BY <2>1, <2>2 DEF Surjection
  <2>6. QED
      BY <2>4, <2>5 DEF Bijection
<1>6. Cardinality(B) = Cardinality(Q)
    BY <1>2, <1>5, FS_Bijection DEF ExistsBijection
<1> HIDE DEF P, Q, R, B
<1>7. Cardinality(R) = Cardinality(P) + Cardinality(B)
  <2>1. Cardinality(P \cup B) = Cardinality(P) + Cardinality(B) - Cardinality({})
      BY <1>2, <1>3, <1>4, FS_Union
  <2>2. Cardinality(P) \in Nat /\ Cardinality(B) \in Nat /\ Cardinality({}) = 0
      BY <1>2, <1>4, FS_CardinalityType, FS_EmptySet
  <2>3. QED
      BY <1>3, <2>1, <2>2
<1>8. QED
    BY <1>1, <1>6, <1>7 DEF Places, r, P, Q, R

(* In a queue of one thread, that thread is found once. *)
LEMMA PlacesSingle ==
    ASSUME NEW S, NEW x \in S, NEW t
    PROVE  <<x>> \in Seq(S) /\ Places(t, <<x>>) = Is(x, t)
<1> DEFINE P == {k \in DOMAIN <<x>> : <<x>>[k] = t}
<1>1. P = IF x = t THEN {1} ELSE {}
    OBVIOUS
<1>2. Cardinality(P) = Is(x, t)
    BY <1>1, FS_Singleton, FS_EmptySet DEF Is
<1>3. QED
    BY <1>2 DEF Places

(* queue_insert adds one place, for the thread that is inserted. *)
LEMMA PlacesAppend ==
    ASSUME NEW S, NEW q \in Seq(S), NEW x \in S, NEW t
    PROVE  Append(q, x) \in Seq(S) /\ Places(t, Append(q, x)) = Places(t, q) + Is(x, t)
<1>1. Append(q, x) = q \o <<x>> /\ Append(q, x) \in Seq(S)
    BY AppendIsConcat, AppendProperties
<1>2. <<x>> \in Seq(S) /\ Places(t, <<x>>) = Is(x, t)
    BY PlacesSingle
<1> DEFINE s == <<x>>
<1> HIDE DEF s
<1>3. s \in Seq(S) => Places(t, q \o s) = Places(t, q) + Places(t, s)
    BY PlacesConcat
<1>4. QED
    BY <1>1, <1>2, <1>3 DEF s

(* queue_remove takes one place, that of the thread that is removed. *)
LEMMA PlacesTail ==
    ASSUME NEW S, NEW q \in Seq(S), q # << >>, NEW t
    PROVE  /\ Head(q) \in S /\ Tail(q) \in Seq(S)
           /\ Places(t, q) = Is(Head(q), t) + Places(t, Tail(q))
<1> DEFINE h == Head(q)
           r == Tail(q)
<1>1. /\ h \in S /\ r \in Seq(S) /\ h = q[1]
      /\ Len(q) \in Nat \ {0} /\ Len(r) = Len(q) - 1
      /\ \A i \in 1 .. Len(r) : r[i] = q[i + 1]
    BY HeadTailProperties, EmptySeq
<1> HIDE DEF h, r
<1>2. <<h>> \in Seq(S) /\ Len(<<h>>) = 1 /\ <<h>>[1] = h
    BY <1>1
<1> DEFINE s == <<h>> \o r
<1>3. /\ s \in Seq(S) /\ Len(s) = 1 + Len(r)
      /\ \A i \in 1 .. 1 + Len(r) : s[i] = IF i <= 1 THEN <<h>>[i] ELSE r[i - 1]
    BY <1>1, <1>2, ConcatProperties
<1> HIDE DEF s
<1>4. Len(s) = Len(q) /\ \A i \in 1 .. Len(q) : s[i] = q[i]
    BY <1>1, <1>2, <1>3
<1>5. q = s
    BY <1>3, <1>4, SeqEqual
<1>6. Places(t, s) = Is(h, t) + Places(t, r)
  <2>1. Places(t, <<h>>) = Is(h, t)
      BY <1>1, PlacesSingle
  <2> DEFINE o == <<h>>
  <2> HIDE DEF o
  <2>2. o \in Seq(S) => Places(t, o \o r) = Places(t, o) + Places(t, r)
      BY <1>1, PlacesConcat
  <2>3. QED
      BY <1>2, <2>1, <2>2 DEF s, o
<1>7. QED
    BY <1>1, <1>5, <1>6 DEF h, r

-----------------------------------------------------------------------------
(* The inductive invariant *)

Run(t) == Places(t, <<active>> \o exe)      \* on the processor or in the run queue

(* Where a thread is, by the statement at which it goes on.  A thread that has entered
   the monitor's queue and is not asleep yet is in a queue twice, and each entry through
   line 491 adds a place.  The owner of the mutex can run, and still can when it has put
   itself to sleep.  A thread that has never been put in two queues owns the mutex when
   it runs inside. *)
Whereabouts(t) ==
    /\ pc[t] \in {"out", "in"} =>
         Run(t) + Places(t, lockq) + Places(t, monq) = 1 + requeued[t]
    /\ pc[t] \in {"leave", "sleep"} =>
         Run(t) + Places(t, lockq) + Places(t, monq) = 2 + requeued[t]
    /\ pc[t] # "in" => Run(t) >= 1
    /\ pc[t] = "leave" => thr = t
    /\ thr = t => Run(t) >= 1
    /\ thr = t /\ pc[t] = "sleep" => Run(t) >= 2
    /\ requeued[t] = 0 => /\ pc[t] = "out" => thr # t
                          /\ pc[t] = "in" /\ Run(t) >= 1 => thr = t
                          /\ pc[t] = "leave" => Places(t, monq) = 1
                          /\ pc[t] = "sleep" /\ thr # t => Run(t) = 1

Types == TypeOK /\ (~Requeue => \A t \in Threads : requeued[t] = 0)

(* While the program runs; after the crash nothing happens. *)
Alive == Types /\ active \in Threads /\ \A t \in Threads : Whereabouts(t)

Crashed == TypeOK /\ active = NoThread /\ Elements(monq) = Threads

IInv == Alive \/ Crashed

(* The counts are numbers. *)
LEMMA CountsAreNumbers ==
    ASSUME Types, active \in Threads
    PROVE  \A t \in Threads : /\ Run(t) \in Nat
                              /\ Places(t, lockq) \in Nat
                              /\ Places(t, monq) \in Nat
<1> DEFINE q == <<active>> \o exe
<1>1. q \in Seq(Threads)
  <2>1. <<active>> \in Seq(Threads)
      OBVIOUS
  <2>2. QED
      BY <2>1, ConcatProperties DEF Types, TypeOK
<1> HIDE DEF q
<1>2. \A t \in Threads : Places(t, q) \in Nat /\ Places(t, lockq) \in Nat /\ Places(t, monq) \in Nat
    BY <1>1, PlacesType DEF Types, TypeOK
<1>3. QED
    BY <1>2 DEF Run, q

(* The processor and the run queue hold what each of them holds. *)
LEMMA RunIs ==
    ASSUME NEW a \in Threads, NEW e \in Seq(Threads), NEW t
    PROVE  Places(t, <<a>> \o e) = Is(a, t) + Places(t, e)
<1> DEFINE o == <<a>>
<1>1. o \in Seq(Threads) /\ Places(t, o) = Is(a, t)
    BY PlacesSingle
<1> HIDE DEF o
<1>2. Places(t, o \o e) = Places(t, o) + Places(t, e)
    BY <1>1, PlacesConcat
<1>3. QED
    BY <1>1, <1>2 DEF o

(* A yield or a tick moves threads between the processor and the run queue, and loses
   none and doubles none. *)
LEMMA RotateCounts ==
    ASSUME active \in Threads, exe \in Seq(Threads), Rotate
    PROVE  /\ active' \in Threads /\ exe' \in Seq(Threads)
           /\ \A t \in Threads : Run(t)' = Run(t)
<1> DEFINE q == Append(exe, active)
<1>1. /\ q \in Seq(Threads) /\ q # << >>
      /\ \A t \in Threads : Places(t, q) = Places(t, exe) + Is(active, t)
    BY PlacesAppend, AppendProperties
<1>2. active' = Head(q) /\ exe' = Tail(q)
    BY DEF Rotate
<1> HIDE DEF q
<1>3. /\ Head(q) \in Threads /\ Tail(q) \in Seq(Threads)
      /\ \A t \in Threads : Places(t, q) = Is(Head(q), t) + Places(t, Tail(q))
    BY <1>1, PlacesTail
<1>4. ASSUME NEW t \in Threads PROVE Run(t)' = Run(t)
  <2>1. Run(t) = Is(active, t) + Places(t, exe)
      BY RunIs DEF Run
  <2>2. Run(t)' = Is(Head(q), t) + Places(t, Tail(q))
      BY <1>2, <1>3, RunIs DEF Run
  <2>3. Places(t, exe) \in Nat /\ Is(active, t) \in Nat
      BY PlacesType DEF Is
  <2>4. QED
      BY <1>1, <1>3, <2>1, <2>2, <2>3
<1>5. QED
    BY <1>2, <1>3, <1>4

(* A dispatch takes the active thread's place away, and no other. *)
LEMMA DispatchCounts ==
    ASSUME active \in Threads, exe \in Seq(Threads), Dispatch
    PROVE  /\ active' \in Threads /\ exe' \in Seq(Threads)
           /\ \A t \in Threads : Run(t)' = Run(t) - Is(active, t)
<1>1. exe # << >> /\ active' = Head(exe) /\ exe' = Tail(exe)
    BY DEF Dispatch
<1>2. /\ Head(exe) \in Threads /\ Tail(exe) \in Seq(Threads)
      /\ \A t \in Threads : Places(t, exe) = Is(Head(exe), t) + Places(t, Tail(exe))
    BY <1>1, PlacesTail
<1>3. ASSUME NEW t \in Threads PROVE Run(t)' = Run(t) - Is(active, t)
  <2>1. Run(t) = Is(active, t) + Places(t, exe)
      BY RunIs DEF Run
  <2>2. Run(t)' = Is(Head(exe), t) + Places(t, Tail(exe))
      BY <1>1, <1>2, RunIs DEF Run
  <2>3. Places(t, exe) \in Nat /\ Is(active, t) \in Nat
      BY PlacesType DEF Is
  <2>4. QED
      BY <1>2, <2>1, <2>2, <2>3
<1>4. QED
    BY <1>1, <1>2, <1>3

(* An unlock by the owner hands the mutex to the first that waits for it, which becomes
   runnable; an unlock by another thread does nothing. *)
LEMMA UnlockCounts ==
    ASSUME Types, active \in Threads, NEW t \in Threads, NEW next \in PCs, MutexUnlock(t, next)
    PROVE  /\ active' = active /\ exe' \in Seq(Threads) /\ lockq' \in Seq(Threads)
           /\ thr' \in Threads \cup {NoThread}
           /\ thr' = NoThread => lockq' = << >>
           /\ pc' = [pc EXCEPT ![t] = next]
           /\ \/ thr # t /\ thr' = thr /\ lockq' = lockq /\ exe' = exe
              \/ thr = t /\ thr' = NoThread /\ lockq' = lockq /\ exe' = exe
              \/ /\ thr = t /\ thr' \in Threads
                 /\ \A u \in Threads : /\ Run(u)' = Run(u) + Is(thr', u)
                                       /\ Places(u, lockq) = Is(thr', u) + Places(u, lockq')
<1>1. CASE thr = t /\ lockq # << >>
  <2>1. /\ thr' = Head(lockq) /\ lockq' = Tail(lockq) /\ exe' = Append(exe, Head(lockq))
        /\ active' = active /\ pc' = [pc EXCEPT ![t] = next]
      BY <1>1 DEF MutexUnlock, Goto
  <2>2. /\ Head(lockq) \in Threads /\ Tail(lockq) \in Seq(Threads)
        /\ \A u \in Threads : Places(u, lockq) = Is(Head(lockq), u) + Places(u, Tail(lockq))
      BY <1>1, PlacesTail DEF Types, TypeOK
  <2> DEFINE h == Head(lockq)
  <2> HIDE DEF h
  <2>3. /\ h \in Threads => Append(exe, h) \in Seq(Threads)
        /\ h \in Threads => \A u \in Threads : Places(u, Append(exe, h)) = Places(u, exe) + Is(h, u)
      BY PlacesAppend DEF Types, TypeOK
  <2>4. ASSUME NEW u \in Threads PROVE Run(u)' = Run(u) + Is(h, u)
    <3>1. Run(u) = Is(active, u) + Places(u, exe)
        BY RunIs DEF Run, Types, TypeOK
    <3>2. Run(u)' = Is(active, u) + Places(u, exe')
        BY <2>1, <2>2, <2>3, RunIs DEF Run, h
    <3>3. Places(u, exe) \in Nat /\ Is(active, u) \in Nat /\ Is(h, u) \in Nat
        BY PlacesType DEF Is, Types, TypeOK
    <3>4. QED
        BY <2>1, <2>2, <2>3, <3>1, <3>2, <3>3 DEF h
  <2>5. thr' \in Threads /\ thr' # NoThread
      BY <2>1, <2>2, ThreadsAssumption
  <2>6. QED
      BY <1>1, <2>1, <2>2, <2>3, <2>4, <2>5 DEF h
<1>2. CASE thr = t /\ lockq = << >>
  <2>1. /\ active' = active /\ pc' = [pc EXCEPT ![t] = next]
        /\ thr' = NoThread /\ lockq' = lockq /\ exe' = exe
      BY <1>2 DEF MutexUnlock, Goto
  <2>2. QED
      BY <1>2, <2>1 DEF Types, TypeOK
<1>3. CASE thr # t
  <2>1. /\ active' = active /\ pc' = [pc EXCEPT ![t] = next]
        /\ thr' = thr /\ lockq' = lockq /\ exe' = exe
      BY <1>3 DEF MutexUnlock, Goto, mutex
  <2>2. QED
      BY <1>3, <2>1 DEF Types, TypeOK
<1>4. QED
    BY <1>1, <1>2, <1>3

-----------------------------------------------------------------------------
(* Each step keeps the invariant. *)

(* What the proofs below use of the invariant. *)
LEMMA AliveFacts ==
    ASSUME Alive
    PROVE  /\ active \in Threads /\ pc \in [Threads -> PCs] /\ exe \in Seq(Threads)
           /\ lockq \in Seq(Threads) /\ monq \in Seq(Threads)
           /\ requeued \in [Threads -> 0 .. MaxRequeues]
           /\ \A u \in Threads : requeued[u] \in Nat
           /\ \A u \in Threads : Whereabouts(u)
           /\ \A u \in Threads : /\ Run(u) \in Nat
                                 /\ Places(u, lockq) \in Nat
                                 /\ Places(u, monq) \in Nat
           /\ Run(active) >= 1
<1>1. /\ active \in Threads /\ pc \in [Threads -> PCs] /\ exe \in Seq(Threads)
      /\ lockq \in Seq(Threads) /\ monq \in Seq(Threads)
      /\ requeued \in [Threads -> 0 .. MaxRequeues]
      /\ \A u \in Threads : Whereabouts(u)
    BY DEF Alive, Types, TypeOK
<1>2. Run(active) = 1 + Places(active, exe) /\ Places(active, exe) \in Nat
    BY <1>1, RunIs, PlacesType DEF Run, Is
<1>3. \A u \in Threads : requeued[u] \in Nat
    BY <1>1, RequeuesAssumption
<1>4. QED
    BY <1>1, <1>2, <1>3, CountsAreNumbers DEF Alive

(* sthread_user_monitor_enter: a thread that finds the mutex taken goes to its queue, and
   with line 491 to the run queue as well. *)
LEMMA EnterKeeps ==
    ASSUME Alive, Enter(active)
    PROVE  Alive'
<1>1. /\ pc[active] = "out" /\ pc' = [pc EXCEPT ![active] = "in"] /\ monq' = monq
      /\ active \in Threads /\ pc \in [Threads -> PCs] /\ exe \in Seq(Threads)
      /\ requeued \in [Threads -> 0 .. MaxRequeues]
      /\ \A u \in Threads : requeued[u] \in Nat
      /\ \A u \in Threads : Whereabouts(u)
      /\ \A u \in Threads : /\ Run(u) \in Nat
                            /\ Places(u, lockq) \in Nat
                            /\ Places(u, monq) \in Nat
      /\ Run(active) >= 1
    BY AliveFacts DEF Enter, MutexLock, Goto
<1>2. CASE thr = NoThread
  <2>1. /\ thr' = active /\ lockq' = lockq /\ active' = active /\ exe' = exe
        /\ requeued' = requeued
      BY <1>2 DEF Enter, MutexLock, sched
  <2>2. Types'
      BY <1>1, <2>1, ThreadsAssumption DEF Types, TypeOK, Alive, PCs
  <2>3. ASSUME NEW u \in Threads PROVE Whereabouts(u)'
    <3>1. Run(u)' = Run(u) /\ Places(u, lockq') = Places(u, lockq)
          /\ Places(u, monq') = Places(u, monq)
        BY <1>1, <2>1 DEF Run
    <3>2. CASE u = active
        BY <1>1, <2>1, <3>1, <3>2 DEF Whereabouts
    <3>3. CASE u # active
      <4>1. thr # u /\ thr' # u /\ pc'[u] = pc[u]
          BY <1>1, <1>2, <2>1, <3>3, ThreadsAssumption
      <4>2. QED
          BY <1>1, <2>1, <3>1, <4>1 DEF Whereabouts
    <3>4. QED
        BY <3>2, <3>3
  <2>4. QED
      BY <1>1, <2>1, <2>2, <2>3 DEF Alive
<1>3. CASE thr # NoThread
  <2>1. thr' = thr /\ lockq' = Append(lockq, active)
      BY <1>3 DEF Enter, MutexLock
  <2>2. /\ lockq' \in Seq(Threads)
        /\ \A t \in Threads : Places(t, lockq') = Places(t, lockq) + Is(active, t)
      BY <1>1, <2>1, PlacesAppend DEF Alive, Types, TypeOK
  <2>3. CASE ~Requeue
    <3>1. Dispatch /\ requeued' = requeued
        BY <1>3, <2>3 DEF Enter, MutexLock
    <3>2. /\ active' \in Threads /\ exe' \in Seq(Threads)
          /\ \A t \in Threads : Run(t)' = Run(t) - Is(active, t)
        BY <1>1, <3>1, DispatchCounts
    <3>3. Types'
        BY <1>1, <1>3, <2>1, <2>2, <3>1, <3>2 DEF Types, TypeOK, Alive, PCs
    <3>4. ASSUME NEW u \in Threads PROVE Whereabouts(u)'
      <4>1. Places(u, monq') = Places(u, monq) /\ requeued[u] = 0 /\ requeued'[u] = 0
          BY <1>1, <2>3, <3>1 DEF Alive, Types
      <4>2. CASE u = active
        <5>1. pc[u] = "out" /\ pc'[u] = "in" /\ Is(active, u) = 1
            BY <1>1, <4>2 DEF Is
        <5>2. Run(u) = 1 /\ Places(u, lockq) = 0 /\ Places(u, monq) = 0 /\ thr # u
            BY <1>1, <4>1, <5>1 DEF Whereabouts
        <5>3. Run(u)' = 0 /\ Places(u, lockq') = 1
            BY <2>2, <3>2, <5>1, <5>2
        <5>4. QED
            BY <2>1, <4>1, <5>1, <5>2, <5>3 DEF Whereabouts
      <4>3. CASE u # active
        <5>1. thr' = thr /\ pc'[u] = pc[u] /\ Is(active, u) = 0
            BY <1>1, <2>1, <4>3 DEF Is
        <5>2. Run(u)' = Run(u) /\ Places(u, lockq') = Places(u, lockq)
            BY <1>1, <2>2, <3>2, <5>1
        <5>3. QED
            BY <1>1, <4>1, <5>1, <5>2 DEF Whereabouts
      <4>4. QED
          BY <4>2, <4>3
    <3>5. QED
        BY <3>2, <3>3, <3>4 DEF Alive
  <2>4. CASE Requeue
    <3>1. /\ Rotate /\ requeued[active] < MaxRequeues
          /\ requeued' = [requeued EXCEPT ![active] = @ + 1]
        BY <1>3, <2>4 DEF Enter, MutexLock
    <3>2. /\ active' \in Threads /\ exe' \in Seq(Threads)
          /\ \A t \in Threads : Run(t)' = Run(t)
        BY <1>1, <3>1, RotateCounts
    <3>3. requeued' \in [Threads -> 0 .. MaxRequeues]
        BY <1>1, <3>1, RequeuesAssumption
    <3>4. Types'
        BY <1>1, <1>3, <2>1, <2>2, <2>4, <3>2, <3>3 DEF Types, TypeOK, Alive, PCs
    <3>5. ASSUME NEW u \in Threads PROVE Whereabouts(u)'
      <4>1. /\ Places(u, monq') = Places(u, monq) /\ Run(u)' = Run(u) /\ thr' = thr
            /\ Places(u, lockq') = Places(u, lockq) + Is(active, u)
          BY <1>1, <2>1, <2>2, <3>2
      <4>2. CASE u = active
        <5>1. /\ pc[u] = "out" /\ pc'[u] = "in" /\ Is(active, u) = 1
              /\ requeued'[u] = requeued[u] + 1
            BY <1>1, <3>1, <4>2 DEF Is
        <5>2. /\ Run(u) \in Nat /\ Places(u, lockq) \in Nat /\ Places(u, monq) \in Nat
             /\ requeued[u] \in Nat /\ Whereabouts(u)
            BY <1>1
        <5>3. QED
            BY <4>1, <4>2, <5>1, <5>2 DEF Whereabouts
      <4>3. CASE u # active
        <5>1. pc'[u] = pc[u] /\ Is(active, u) = 0 /\ requeued'[u] = requeued[u]
            BY <1>1, <3>1, <4>3 DEF Is
        <5>2. QED
            BY <1>1, <4>1, <5>1 DEF Whereabouts
      <4>4. QED
          BY <4>2, <4>3
    <3>6. QED
        BY <3>2, <3>4, <3>5 DEF Alive
  <2>5. QED
      BY <2>3, <2>4
<1>4. QED
    BY <1>2, <1>3

(* The unlock of sthread_user_monitor_exit, and of sthread_user_monitor_wait: the owner
   hands the mutex over, to itself if line 491 has left it in the mutex's queue. *)
LEMMA UnlockKeeps ==
    ASSUME Alive, Exit(active) \/ Leave(active)
    PROVE  Alive'
<1> DEFINE next == IF pc[active] = "in" THEN "out" ELSE "sleep"
<1>1. /\ active \in Threads /\ pc \in [Threads -> PCs]
      /\ requeued' = requeued /\ monq' = monq
      /\ \A u \in Threads : requeued[u] \in Nat
      /\ \A u \in Threads : Whereabouts(u)
      /\ \A u \in Threads : /\ Run(u) \in Nat
                            /\ Places(u, lockq) \in Nat
                            /\ Places(u, monq) \in Nat
      /\ Run(active) >= 1
    BY AliveFacts DEF Exit, Leave
<1>2. next \in PCs /\ MutexUnlock(active, next) /\ pc[active] \in {"in", "leave"}
    BY DEF Exit, Leave, PCs
<1> HIDE DEF next
<1>3. /\ active' = active /\ exe' \in Seq(Threads) /\ lockq' \in Seq(Threads)
      /\ thr' \in Threads \cup {NoThread}
      /\ thr' = NoThread => lockq' = << >>
      /\ pc' = [pc EXCEPT ![active] = next]
      /\ \/ thr # active /\ thr' = thr /\ lockq' = lockq /\ exe' = exe
         \/ thr = active /\ thr' = NoThread /\ lockq' = lockq /\ exe' = exe
         \/ /\ thr = active /\ thr' \in Threads
            /\ \A u \in Threads : /\ Run(u)' = Run(u) + Is(thr', u)
                                  /\ Places(u, lockq) = Is(thr', u) + Places(u, lockq')
    BY <1>1, <1>2, UnlockCounts DEF Alive
<1>4. Types'
    BY <1>1, <1>2, <1>3 DEF Types, TypeOK, Alive
<1>5. ASSUME NEW u \in Threads PROVE Whereabouts(u)'
  <2>1. /\ Places(u, monq') = Places(u, monq) /\ Places(u, lockq') \in Nat
        /\ requeued'[u] = requeued[u]
      BY <1>1, <1>3, PlacesType
  <2>2. pc'[u] = IF u = active THEN next ELSE pc[u]
      BY <1>1, <1>3
  <2>3. CASE thr # active /\ thr' = thr /\ lockq' = lockq /\ exe' = exe
    <3>1. Run(u)' = Run(u) /\ Places(u, lockq') = Places(u, lockq)
        BY <1>3, <2>3 DEF Run
    <3>2. CASE u = active
      <4>1. pc[u] = "in" /\ pc'[u] = "out"
          BY <1>1, <1>2, <2>2, <2>3, <3>2 DEF Whereabouts, next
      <4>2. QED
          BY <1>1, <2>1, <2>3, <3>1, <3>2, <4>1 DEF Whereabouts
    <3>3. CASE u # active
        BY <1>1, <2>1, <2>2, <2>3, <3>1, <3>3 DEF Whereabouts
    <3>4. QED
        BY <3>2, <3>3
  <2>4. CASE thr = active /\ thr' = NoThread /\ lockq' = lockq /\ exe' = exe
    <3>1. Run(u)' = Run(u) /\ Places(u, lockq') = Places(u, lockq) /\ thr' # u
        BY <1>3, <2>4, ThreadsAssumption DEF Run
    <3>2. CASE u = active
        BY <1>1, <1>2, <2>1, <2>2, <2>4, <3>1, <3>2 DEF Whereabouts, next
    <3>3. CASE u # active
        BY <1>1, <2>1, <2>2, <2>4, <3>1, <3>3 DEF Whereabouts
    <3>4. QED
        BY <3>2, <3>3
  <2>5. CASE /\ thr = active /\ thr' \in Threads
             /\ \A v \in Threads : /\ Run(v)' = Run(v) + Is(thr', v)
                                   /\ Places(v, lockq) = Is(thr', v) + Places(v, lockq')
    <3>1. /\ Run(u)' = Run(u) + Is(thr', u)
          /\ Places(u, lockq) = Is(thr', u) + Places(u, lockq')
        BY <2>5
    <3>2. CASE thr' = u
      <4>1. Run(u)' = Run(u) + 1 /\ Places(u, lockq) = 1 + Places(u, lockq')
          BY <3>1, <3>2 DEF Is
      <4>2. CASE u = active
          BY <1>1, <1>2, <2>1, <2>2, <2>5, <3>2, <4>1, <4>2 DEF Whereabouts, next
      <4>3. CASE u # active
          BY <1>1, <2>1, <2>2, <2>5, <3>2, <4>1, <4>3 DEF Whereabouts
      <4>4. QED
          BY <4>2, <4>3
    <3>3. CASE thr' # u
      <4>1. Run(u)' = Run(u) /\ Places(u, lockq) = Places(u, lockq')
          BY <1>1, <2>1, <3>1, <3>3 DEF Is
      <4>2. CASE u = active
          BY <1>1, <1>2, <2>1, <2>2, <2>5, <3>3, <4>1, <4>2 DEF Whereabouts, next
      <4>3. CASE u # active
          BY <1>1, <2>1, <2>2, <2>5, <3>3, <4>1, <4>3 DEF Whereabouts
      <4>4. QED
          BY <4>2, <4>3
    <3>4. QED
        BY <3>2, <3>3
  <2>6. QED
      BY <1>3, <2>3, <2>4, <2>5
<1>6. QED
    BY <1>1, <1>3, <1>4, <1>5 DEF Alive

(* sthread_user_monitor_wait enters the monitor's queue while it owns the mutex. *)
LEMMA WaitKeeps ==
    ASSUME Alive, Wait(active)
    PROVE  Alive'
<1>1. /\ pc[active] = "in" /\ pc' = [pc EXCEPT ![active] = "leave"] /\ thr = active
      /\ active' = active /\ exe' = exe /\ thr' = thr /\ lockq' = lockq
      /\ monq' = Append(monq, active) /\ requeued' = requeued
    BY DEF Wait, Goto, sched, mutex
<1>2. /\ active \in Threads /\ pc \in [Threads -> PCs] /\ monq \in Seq(Threads)
      /\ \A u \in Threads : requeued[u] \in Nat
      /\ \A u \in Threads : Whereabouts(u)
      /\ \A u \in Threads : /\ Run(u) \in Nat
                            /\ Places(u, lockq) \in Nat
                            /\ Places(u, monq) \in Nat
      /\ Run(active) >= 1
    BY AliveFacts
<1>3. /\ monq' \in Seq(Threads)
      /\ \A u \in Threads : Places(u, monq') = Places(u, monq) + Is(active, u)
    BY <1>1, <1>2, PlacesAppend
<1>4. Types'
    BY <1>1, <1>2, <1>3 DEF Types, TypeOK, Alive, PCs
<1>5. ASSUME NEW u \in Threads PROVE Whereabouts(u)'
  <2>1. Run(u)' = Run(u) /\ Places(u, lockq') = Places(u, lockq)
      BY <1>1 DEF Run
  <2>2. CASE u = active
    <3>1. pc'[u] = "leave" /\ Places(u, monq') = Places(u, monq) + 1
        BY <1>1, <1>2, <1>3, <2>2 DEF Is
    <3>2. /\ Run(u) \in Nat /\ Places(u, lockq) \in Nat /\ Places(u, monq) \in Nat
         /\ requeued[u] \in Nat /\ Whereabouts(u)
        BY <1>2
    <3>3. QED
        BY <1>1, <2>1, <2>2, <3>1, <3>2 DEF Whereabouts
  <2>3. CASE u # active
    <3>1. pc'[u] = pc[u] /\ Is(active, u) = 0
        BY <1>1, <1>2, <2>3 DEF Is
    <3>2. Places(u, monq') = Places(u, monq)
        BY <1>2, <1>3, <3>1
    <3>3. QED
        BY <1>1, <1>2, <2>1, <3>1, <3>2 DEF Whereabouts
  <2>4. QED
      BY <2>2, <2>3
<1>6. QED
    BY <1>1, <1>2, <1>4, <1>5 DEF Alive

(* The dispatch at the end of sthread_user_monitor_wait: the thread gives up the place
   from which it runs.  With nobody to dispatch the mutex is free, as its owner could
   run, and everyone is in the monitor's queue. *)
LEMMA SleepKeeps ==
    ASSUME Alive, Sleep(active)
    PROVE  IInv'
<1>1. /\ pc[active] = "sleep" /\ pc' = [pc EXCEPT ![active] = "in"]
      /\ thr' = thr /\ lockq' = lockq /\ monq' = monq /\ requeued' = requeued
    BY DEF Sleep, Goto, mutex
<1>2. /\ active \in Threads /\ pc \in [Threads -> PCs] /\ exe \in Seq(Threads)
      /\ monq \in Seq(Threads)
      /\ \A u \in Threads : requeued[u] \in Nat
      /\ \A u \in Threads : Whereabouts(u)
      /\ \A u \in Threads : /\ Run(u) \in Nat
                            /\ Places(u, lockq) \in Nat
                            /\ Places(u, monq) \in Nat
    BY AliveFacts
<1>3. CASE Dispatch
  <2>1. /\ active' \in Threads /\ exe' \in Seq(Threads)
        /\ \A t \in Threads : Run(t)' = Run(t) - Is(active, t)
      BY <1>2, <1>3, DispatchCounts
  <2>2. Types'
      BY <1>1, <1>2, <2>1 DEF Types, TypeOK, Alive, PCs
  <2>3. ASSUME NEW u \in Threads PROVE Whereabouts(u)'
    <3>1. Places(u, lockq') = Places(u, lockq) /\ Places(u, monq') = Places(u, monq)
        BY <1>1
    <3>2. CASE u = active
      <4>1. pc[u] = "sleep" /\ pc'[u] = "in" /\ Run(u)' = Run(u) - 1
          BY <1>1, <1>2, <2>1, <3>2 DEF Is
      <4>2. /\ Run(u) \in Nat /\ Places(u, lockq) \in Nat /\ Places(u, monq) \in Nat
           /\ requeued[u] \in Nat /\ Whereabouts(u)
          BY <1>2
      <4>3. QED
          BY <1>1, <3>1, <4>1, <4>2 DEF Whereabouts
    <3>3. CASE u # active
      <4>1. pc'[u] = pc[u] /\ Is(active, u) = 0
          BY <1>1, <1>2, <3>3 DEF Is
      <4>2. Run(u)' = Run(u)
          BY <1>2, <2>1, <4>1
      <4>3. QED
          BY <1>1, <1>2, <3>1, <4>1, <4>2 DEF Whereabouts
    <3>4. QED
        BY <3>2, <3>3
  <2>4. QED
      BY <2>1, <2>2, <2>3 DEF Alive, IInv
<1>4. CASE exe = << >> /\ active' = NoThread /\ UNCHANGED exe
  <2>1. ASSUME NEW u \in Threads PROVE Run(u) = Is(active, u)
    <3>1. Places(u, exe) = 0
        BY <1>4, PlacesEmpty
    <3>2. Run(u) = Is(active, u) + Places(u, exe)
        BY <1>2, RunIs DEF Run
    <3>3. Is(active, u) \in Nat
        BY DEF Is
    <3>4. QED
        BY <3>1, <3>2, <3>3
  <2>2. ASSUME NEW u \in Threads PROVE thr # u
    <3>1. Run(u) <= 1 /\ (u # active => Run(u) = 0)
        BY <2>1 DEF Is
    <3>2. CASE u = active
        BY <1>1, <1>2, <3>1, <3>2 DEF Whereabouts
    <3>3. CASE u # active
        BY <1>2, <3>1, <3>3 DEF Whereabouts, PCs
    <3>4. QED
        BY <3>2, <3>3
  <2>3. thr = NoThread /\ lockq = << >>
      BY <2>2 DEF Alive, Types, TypeOK
  <2>4. ASSUME NEW u \in Threads PROVE Places(u, monq) # 0
    <3>1. Places(u, lockq) = 0 /\ Run(u) <= 1 /\ (u # active => Run(u) = 0)
        BY <2>1, <2>3, PlacesEmpty DEF Is
    <3>2. CASE u = active
        BY <1>1, <1>2, <3>1, <3>2 DEF Whereabouts
    <3>3. CASE u # active
      <4>1. /\ Run(u) \in Nat /\ Places(u, lockq) \in Nat /\ Places(u, monq) \in Nat
           /\ requeued[u] \in Nat /\ Whereabouts(u)
          BY <1>2
      <4>2. pc[u] = "in"
          BY <3>1, <3>3, <4>1 DEF Whereabouts
      <4>3. QED
          BY <3>1, <3>3, <4>1, <4>2 DEF Whereabouts
    <3>4. QED
        BY <3>2, <3>3
  <2>5. Elements(monq) = Threads
    <3>1. ASSUME NEW u \in Threads PROVE u \in Elements(monq)
      <4>1. Places(u, monq) = 0 <=> u \notin Elements(monq)
          BY <1>2, PlacesType
      <4>2. QED
          BY <2>4, <4>1
    <3>2. QED
        BY <1>2, <3>1 DEF Elements
  <2>6. QED
      BY <1>1, <1>4, <2>3, <2>5 DEF IInv, Crashed, TypeOK, Alive, Types, PCs
<1>5. QED
    BY <1>3, <1>4 DEF Sleep

(* sthread_user_monitor_signal: the owner moves the first thread that waits to the
   mutex's queue. *)
LEMMA SignalKeeps ==
    ASSUME Alive, Signal(active)
    PROVE  Alive'
<1> DEFINE h == Head(monq)
<1>1. /\ pc' = pc /\ thr = active /\ pc[active] = "in"
      /\ active' = active /\ exe' = exe /\ thr' = thr /\ requeued' = requeued
      /\ lockq' = Append(lockq, h) /\ monq' = Tail(monq) /\ monq # << >>
    BY DEF Signal, sched
<1>2. /\ active \in Threads /\ pc \in [Threads -> PCs]
      /\ lockq \in Seq(Threads) /\ monq \in Seq(Threads)
      /\ \A u \in Threads : requeued[u] \in Nat
      /\ \A u \in Threads : Whereabouts(u)
      /\ \A u \in Threads : /\ Run(u) \in Nat
                            /\ Places(u, lockq) \in Nat
                            /\ Places(u, monq) \in Nat
    BY AliveFacts
<1>3. /\ h \in Threads /\ monq' \in Seq(Threads)
      /\ \A u \in Threads : Places(u, monq) = Is(h, u) + Places(u, monq')
    BY <1>1, <1>2, PlacesTail
<1> HIDE DEF h
<1>4. /\ lockq' \in Seq(Threads)
      /\ \A u \in Threads : Places(u, lockq') = Places(u, lockq) + Is(h, u)
    BY <1>1, <1>2, <1>3, PlacesAppend
<1>5. Types'
    BY <1>1, <1>2, <1>3, <1>4, ThreadsAssumption DEF Types, TypeOK, Alive
<1>6. ASSUME NEW u \in Threads PROVE Whereabouts(u)'
  <2>1. /\ Run(u)' = Run(u) /\ Places(u, monq') \in Nat /\ Is(h, u) \in Nat
        /\ Places(u, monq) = Is(h, u) + Places(u, monq')
        /\ Places(u, lockq') = Places(u, lockq) + Is(h, u)
      BY <1>1, <1>3, <1>4, PlacesType DEF Run, Is
  <2>2. pc[u] # "leave"
      BY <1>1, <1>2 DEF Whereabouts
  <2>3. /\ Run(u) \in Nat /\ Places(u, lockq) \in Nat /\ Places(u, monq) \in Nat
       /\ requeued[u] \in Nat /\ Whereabouts(u)
      BY <1>2
  <2>4. QED
      BY <1>1, <2>1, <2>2, <2>3 DEF Whereabouts
<1>7. QED
    BY <1>1, <1>2, <1>5, <1>6 DEF Alive

(* sthread_user_monitor_signalall moves them all. *)
LEMMA SignalAllKeeps ==
    ASSUME Alive, SignalAll(active)
    PROVE  Alive'
<1>1. /\ pc' = pc /\ thr = active /\ pc[active] = "in"
      /\ active' = active /\ exe' = exe /\ thr' = thr /\ requeued' = requeued
      /\ lockq' = lockq \o monq /\ monq' = << >>
    BY DEF SignalAll, sched
<1>2. /\ active \in Threads /\ pc \in [Threads -> PCs]
      /\ lockq \in Seq(Threads) /\ monq \in Seq(Threads)
      /\ \A u \in Threads : requeued[u] \in Nat
      /\ \A u \in Threads : Whereabouts(u)
      /\ \A u \in Threads : /\ Run(u) \in Nat
                            /\ Places(u, lockq) \in Nat
                            /\ Places(u, monq) \in Nat
    BY AliveFacts
<1>3. /\ lockq' \in Seq(Threads)
      /\ \A u \in Threads : Places(u, lockq') = Places(u, lockq) + Places(u, monq)
    BY <1>1, <1>2, PlacesConcat
<1>4. /\ monq' \in Seq(Threads)
      /\ \A u \in Threads : Places(u, monq') = 0
    BY <1>1, PlacesEmpty
<1>5. Types'
    BY <1>1, <1>2, <1>3, <1>4, ThreadsAssumption DEF Types, TypeOK, Alive
<1>6. ASSUME NEW u \in Threads PROVE Whereabouts(u)'
  <2>1. Run(u)' = Run(u)
      BY <1>1 DEF Run
  <2>2. pc[u] # "leave"
      BY <1>1, <1>2 DEF Whereabouts
  <2>3. QED
      BY <1>1, <1>2, <1>3, <1>4, <2>1, <2>2 DEF Whereabouts
<1>7. QED
    BY <1>1, <1>2, <1>5, <1>6 DEF Alive

(* A clock tick, and a yield. *)
LEMMA RotateKeeps ==
    ASSUME Alive, Tick \/ Yield(active)
    PROVE  Alive'
<1>1. /\ Rotate /\ thr' = thr /\ lockq' = lockq /\ monq' = monq /\ pc' = pc
      /\ requeued' = requeued
    BY DEF Tick, Yield, mutex
<1>2. /\ active' \in Threads /\ exe' \in Seq(Threads)
      /\ \A t \in Threads : Run(t)' = Run(t)
    BY <1>1, RotateCounts DEF Alive, Types, TypeOK
<1>3. Types'
    BY <1>1, <1>2 DEF Alive, Types, TypeOK
<1>4. ASSUME NEW u \in Threads PROVE Whereabouts(u)'
    BY <1>1, <1>2 DEF Whereabouts, Alive
<1>5. QED
    BY <1>2, <1>3, <1>4 DEF Alive

-----------------------------------------------------------------------------
(* The theorems *)

(* A queue that is an order of some threads holds each of them once. *)
LEMMA OrdersCounts ==
    ASSUME NEW S, IsFiniteSet(S), NEW q \in Orders(S), NEW t
    PROVE  q \in Seq(S) /\ Places(t, q) = IF t \in S THEN 1 ELSE 0
<1> DEFINE n == Cardinality(S)
           P == {k \in DOMAIN q : q[k] = t}
<1>1. n \in Nat /\ q \in [1 .. n -> S] /\ Elements(q) = S
    BY FS_CardinalityType DEF Orders
<1>2. q \in Seq(S) /\ DOMAIN q = 1 .. n
    BY <1>1
<1>3. \A j, k \in 1 .. n : q[j] = q[k] => j = k
  <2>1. q \in Surjection(1 .. n, S)
      BY <1>1, <1>2 DEF Elements, Surjection
  <2>2. IsFiniteSet(1 .. n) /\ Cardinality(1 .. n) = n
      BY <1>1, FS_Interval
  <2>3. q \in Injection(1 .. n, S)
      BY <2>1, <2>2, FS_SurjSameCardinalityImpliesInj
  <2>4. QED
      BY <1>2, <2>3 DEF Injection, IsInjective
<1>4. CASE t \in S
  <2>1. PICK k \in DOMAIN q : q[k] = t
      BY <1>1, <1>4 DEF Elements
  <2>2. P = {k}
      BY <1>2, <1>3, <2>1
  <2>3. QED
      BY <1>2, <1>4, <2>2, FS_Singleton DEF Places
<1>5. CASE t \notin S
  <2>1. P = {}
      BY <1>1, <1>2, <1>5
  <2>2. QED
      BY <1>2, <1>5, <2>1, FS_EmptySet DEF Places
<1>6. QED
    BY <1>4, <1>5

(* In the beginning one thread is on the processor, and the others are in the run queue. *)
LEMMA InitKeeps == Init => IInv
<1> SUFFICES ASSUME Init PROVE Alive
    BY DEF IInv
<1> DEFINE S == Threads \ {active}
<1>1. active \in Threads /\ thr = NoThread /\ lockq = << >> /\ monq = << >>
      /\ pc = [t \in Threads |-> "out"] /\ exe \in Orders(S)
      /\ requeued = [t \in Threads |-> 0]
    BY DEF Init, MutexInit
<1>2. IsFiniteSet(S)
    BY ThreadsAssumption, FS_Subset
<1> HIDE DEF S
<1>3. exe \in Seq(S) /\ \A t \in Threads : Places(t, exe) = IF t \in S THEN 1 ELSE 0
    BY <1>1, <1>2, OrdersCounts
<1>4. exe \in Seq(Threads)
    BY <1>3 DEF S
<1>5. Types
    BY <1>1, <1>4, RequeuesAssumption DEF Types, TypeOK, PCs
<1>6. ASSUME NEW t \in Threads PROVE Whereabouts(t)
  <2>1. Run(t) = Is(active, t) + Places(t, exe)
      BY <1>1, <1>4, RunIs DEF Run
  <2>2. Run(t) = 1
      BY <1>3, <2>1 DEF Is, S
  <2>3. Places(t, lockq) = 0 /\ Places(t, monq) = 0 /\ thr # t
      BY <1>1, PlacesEmpty, ThreadsAssumption
  <2>4. QED
      BY <1>1, <2>2, <2>3 DEF Whereabouts
<1>7. QED
    BY <1>1, <1>5, <1>6 DEF Alive

(* Every thread is where its program counter says, in every behaviour of the monitor
   (sthread_user.c lines 694-797). *)
THEOREM Invariance == Spec => []IInv
<1>1. Init => IInv
    BY InitKeeps
<1>2. IInv /\ [Next]_vars => IInv'
  <2> SUFFICES ASSUME IInv, [Next]_vars PROVE IInv'
      OBVIOUS
  <2>1. CASE UNCHANGED vars
    <3>1. /\ active' = active /\ exe' = exe /\ thr' = thr /\ lockq' = lockq
          /\ monq' = monq /\ pc' = pc /\ requeued' = requeued
        BY <2>1 DEF vars, sched, mutex
    <3>2. CASE Alive
        BY <3>1, <3>2 DEF IInv, Alive, Types, TypeOK, Whereabouts, Run
    <3>3. CASE Crashed
        BY <3>1, <3>3 DEF IInv, Crashed, TypeOK
    <3>4. QED
        BY <3>2, <3>3 DEF IInv
  <2>2. CASE Next
    <3>1. active # NoThread /\ (Tick \/ Step(active))
        BY <2>2 DEF Next, Tick
    <3>2. Alive
        BY <3>1 DEF IInv, Crashed
    <3>3. QED
        BY <3>1, <3>2, EnterKeeps, UnlockKeeps, WaitKeeps, SleepKeeps, SignalKeeps,
           SignalAllKeeps, RotateKeeps DEF Step, IInv
  <2>3. QED
      BY <2>1, <2>2
<1>3. QED
    BY <1>1, <1>2, PTL DEF Spec

(* The variables have their types, and a free mutex has no queue (lines 475-521). *)
THEOREM TypeCorrect == Spec => []TypeOK
<1>1. IInv => TypeOK
    BY DEF IInv, Crashed, Alive, Types
<1>2. QED
    BY <1>1, Invariance, PTL

(* Who has never been put in two queues by line 491 executes inside only as the owner of
   the mutex, also after a wait (lines 733-755), whatever the others do. *)
THEOREM OneInsideCorrect == Spec => []OneInside
<1>1. IInv => OneInside
  <2> SUFFICES ASSUME Alive, pc[active] \in {"in", "leave"}, requeued[active] = 0
               PROVE  thr = active
      BY DEF IInv, Crashed, OneInside
  <2>1. Run(active) \in Nat /\ Run(active) >= 1 /\ Whereabouts(active)
      BY AliveFacts
  <2>2. QED
      BY <2>1 DEF Whereabouts
<1>2. QED
    BY <1>1, Invariance, PTL

(* With the mutex include/sthread.h promises nobody is put in two queues, and only the
   owner of the mutex executes inside. *)
THEOREM PromisedOneInside ==
    ASSUME ~Requeue
    PROVE  Spec => [](active # NoThread /\ pc[active] \in {"in", "leave"} => thr = active)
<1>1. IInv => (active # NoThread /\ pc[active] \in {"in", "leave"} => thr = active)
  <2> SUFFICES ASSUME Alive, pc[active] \in {"in", "leave"}
               PROVE  thr = active
      BY DEF IInv, Crashed
  <2>1. /\ Run(active) \in Nat /\ Run(active) >= 1 /\ Whereabouts(active)
        /\ requeued[active] = 0
      BY AliveFacts DEF Alive, Types
  <2>2. QED
      BY <2>1 DEF Whereabouts
<1>2. QED
    BY <1>1, Invariance, PTL

(* No thread is lost, and none goes on without a signal but for line 491: wait's two
   places, everyone else's one, and those that line 491 adds are kept by all the calls
   (lines 733-797). *)
THEOREM AccountedCorrect == Spec => []Accounted
<1>1. IInv => Accounted
  <2> SUFFICES ASSUME Alive, NEW t \in Threads
               PROVE  Run(t) + Places(t, lockq) + Places(t, monq)
                        = (IF pc[t] \in {"leave", "sleep"} THEN 2 ELSE 1) + requeued[t]
      BY DEF IInv, Crashed, Accounted, Run
  <2>1. Whereabouts(t) /\ pc[t] \in {"out", "in", "leave", "sleep"}
      BY DEF Alive, Types, TypeOK, PCs
  <2>2. QED
      BY <2>1 DEF Whereabouts
<1>2. QED
    BY <1>1, Invariance, PTL

(* wait reads through NULL (line 752) only when all the clients wait for a signal. *)
THEOREM CrashOnlyWhenAllWaitCorrect == Spec => []CrashOnlyWhenAllWait
<1>1. IInv => CrashOnlyWhenAllWait
    BY ThreadsAssumption DEF IInv, Alive, Crashed, CrashOnlyWhenAllWait
<1>2. QED
    BY <1>1, Invariance, PTL

=============================================================================
