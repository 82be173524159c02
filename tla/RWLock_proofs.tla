---------------------------- MODULE RWLock_proofs ----------------------------
(***************************************************************************)
(* Proofs about RWLock: type correctness, exclusion, the meaning of the    *)
(* counters and the absence of lost wake-ups, for any number of threads.   *)
(***************************************************************************)
EXTENDS RWLock, FiniteSetTheorems, SequenceTheorems, TLAPS

-----------------------------------------------------------------------------
(* Queues *)

(* queue_insert puts the thread in the queue and changes nothing else. *)
LEMMA ElementsAppend ==
    ASSUME NEW S, NEW q \in Seq(S), NEW x \in S
    PROVE  /\ Append(q, x) \in Seq(S)
           /\ Elements(Append(q, x)) = Elements(q) \cup {x}
           /\ Once(q) /\ x \notin Elements(q) => Once(Append(q, x))
<1> DEFINE a == Append(q, x)
<1>1. /\ a \in Seq(S)
      /\ DOMAIN q = 1 .. Len(q) /\ Len(q) \in Nat
      /\ DOMAIN a = 1 .. Len(q) + 1
      /\ \A k \in 1 .. Len(q) : a[k] = q[k]
      /\ a[Len(q) + 1] = x
    BY AppendProperties
<1> HIDE DEF a
<1>2. Elements(a) = Elements(q) \cup {x}
    BY <1>1 DEF Elements
<1>3. Once(q) /\ x \notin Elements(q) => Once(a)
    BY <1>1 DEF Elements, Once
<1>4. QED
    BY <1>1, <1>2, <1>3 DEF a

(* queue_remove takes the first thread out of the queue. *)
LEMMA ElementsTail ==
    ASSUME NEW S, NEW q \in Seq(S), q # << >>
    PROVE  /\ Head(q) \in S /\ Tail(q) \in Seq(S)
           /\ Elements(q) = {Head(q)} \cup Elements(Tail(q))
           /\ Once(q) => Once(Tail(q)) /\ Head(q) \notin Elements(Tail(q))
<1> DEFINE r == Tail(q)
<1>1. /\ r \in Seq(S) /\ Head(q) \in S
      /\ DOMAIN q = 1 .. Len(q) /\ Len(q) \in Nat \ {0}
      /\ DOMAIN r = 1 .. Len(q) - 1
      /\ \A k \in 1 .. Len(q) - 1 : r[k] = q[k + 1]
      /\ Head(q) = q[1]
    BY HeadTailProperties, EmptySeq
<1> HIDE DEF r
<1>2. Elements(q) \subseteq {Head(q)} \cup Elements(r)
  <2>1. SUFFICES ASSUME NEW k \in 1 .. Len(q), k # 1 PROVE q[k] \in Elements(r)
      BY <1>1 DEF Elements
  <2>2. k - 1 \in DOMAIN r /\ r[k - 1] = q[k]
      BY <1>1, <2>1
  <2>3. QED
      BY <2>2 DEF Elements
<1>3. {Head(q)} \cup Elements(r) \subseteq Elements(q)
    BY <1>1 DEF Elements
<1>4. ASSUME Once(q) PROVE Once(r) /\ Head(q) \notin Elements(r)
  <2>1. ASSUME NEW j \in DOMAIN r, NEW k \in DOMAIN r, r[j] = r[k] PROVE j = k
    <3>1. j + 1 \in DOMAIN q /\ k + 1 \in DOMAIN q /\ q[j + 1] = q[k + 1]
        BY <1>1, <2>1
    <3>2. QED
        BY <1>1, <1>4, <3>1 DEF Once
  <2>2. ASSUME NEW j \in DOMAIN r PROVE r[j] # Head(q)
    <3>1. j + 1 \in DOMAIN q /\ 1 \in DOMAIN q /\ r[j] = q[j + 1]
        BY <1>1
    <3>2. QED
        BY <1>1, <1>4, <3>1 DEF Once
  <2>3. QED
      BY <2>1, <2>2 DEF Elements, Once
<1>5. QED
    BY <1>1, <1>2, <1>3, <1>4 DEF r

(* A queue's elements are threads, and an empty queue has none. *)
LEMMA ElementsType ==
    ASSUME NEW S, NEW q \in Seq(S)
    PROVE  /\ Elements(q) \subseteq S
           /\ Elements(q) = {} <=> q = << >>
BY DEF Elements

-----------------------------------------------------------------------------
(* The run queue and the semaphores *)

(* A yield moves threads between the processor and the run queue, and loses none. *)
LEMMA RotateKeeps ==
    ASSUME active \in Threads, exe \in Seq(Threads), Once(exe), active \notin Elements(exe),
           Rotate
    PROVE  /\ active' \in Threads /\ exe' \in Seq(Threads)
           /\ Once(exe') /\ active' \notin Elements(exe')
           /\ {active'} \cup Elements(exe') = {active} \cup Elements(exe)
<1> DEFINE q == Append(exe, active)
<1>1. /\ q \in Seq(Threads) /\ q # << >> /\ Once(q)
      /\ Elements(q) = Elements(exe) \cup {active}
    BY ElementsAppend, AppendProperties
<1>2. active' = Head(q) /\ exe' = Tail(q)
    BY DEF Rotate
<1> HIDE DEF q
<1>3. QED
    BY <1>1, <1>2, ElementsTail

(* The thread that is dispatched leaves the run queue, the others stay in it. *)
LEMMA DispatchKeeps ==
    ASSUME exe \in Seq(Threads), Once(exe), Dispatch
    PROVE  /\ active' \in Threads /\ exe' \in Seq(Threads)
           /\ Once(exe') /\ active' \notin Elements(exe')
           /\ {active'} \cup Elements(exe') = Elements(exe)
BY ElementsTail DEF Dispatch

(* The effect of sem_post: the first waiting thread becomes runnable, or the
   counter grows when there is none. *)
LEMMA SemPostEffect ==
    ASSUME TypeOK, QueueInv, NEW k \in Kinds, SemPost(k)
    PROVE  /\ active' = active /\ exe' \in Seq(Threads)
           /\ counter' \in [Kinds -> Nat] /\ semq' \in [Kinds -> Seq(Threads)]
           /\ \A j \in Kinds \ {k} : counter'[j] = counter[j] /\ semq'[j] = semq[j]
           /\ \/ \E h \in Elements(semq[k]) :
                   /\ Elements(semq'[k]) = Elements(semq[k]) \ {h}
                   /\ Elements(exe') = Elements(exe) \cup {h}
                   /\ Once(exe) /\ h \notin Elements(exe) => Once(exe')
                   /\ Once(semq'[k])
                   /\ counter'[k] = counter[k]
                   /\ counter[k] = 0
              \/ /\ semq[k] = << >>
                 /\ semq' = semq /\ exe' = exe
                 /\ counter'[k] = counter[k] + 1
<1>1. CASE semq[k] = << >>
  <2>1. counter' = [counter EXCEPT ![k] = @ + 1] /\ semq' = semq /\ exe' = exe
        /\ active' = active
      BY <1>1 DEF SemPost
  <2>2. QED
      BY <1>1, <2>1 DEF TypeOK
<1>2. CASE semq[k] # << >>
  <2> DEFINE h == Head(semq[k])
  <2>1. semq[k] \in Seq(Threads) /\ exe \in Seq(Threads)
      BY DEF TypeOK
  <2>2. /\ h \in Threads /\ Tail(semq[k]) \in Seq(Threads)
        /\ h \in Elements(semq[k])
        /\ Elements(Tail(semq[k])) = Elements(semq[k]) \ {h}
        /\ Once(Tail(semq[k]))
      BY <1>2, <2>1, ElementsTail DEF QueueInv
  <2>3. exe' = Append(exe, h) /\ semq' = [semq EXCEPT ![k] = Tail(@)]
        /\ counter' = counter /\ active' = active
      BY <1>2 DEF SemPost
  <2>4. /\ exe' \in Seq(Threads) /\ Elements(exe') = Elements(exe) \cup {h}
        /\ Once(exe) /\ h \notin Elements(exe) => Once(exe')
      BY <2>1, <2>2, <2>3, ElementsAppend
  <2>5. counter[k] = 0
      BY <1>2 DEF QueueInv, TypeOK
  <2>6. semq' \in [Kinds -> Seq(Threads)] /\ semq'[k] = Tail(semq[k])
        /\ \A j \in Kinds \ {k} : semq'[j] = semq[j]
      BY <2>2, <2>3 DEF TypeOK
  <2> HIDE DEF h
  <2>7. QED
      BY <2>2, <2>3, <2>4, <2>5, <2>6 DEF TypeOK
<1>3. QED
    BY <1>1, <1>2

(* Adding to a finite set, and taking from it. *)
LEMMA CardinalityStep ==
    ASSUME NEW S, IsFiniteSet(S), NEW x
    PROVE  /\ Cardinality(S) \in Nat
           /\ x \notin S => Cardinality(S \cup {x}) = Cardinality(S) + 1
           /\ x \in S => Cardinality(S \ {x}) = Cardinality(S) - 1 /\ Cardinality(S) > 0
<1>1. Cardinality(S) \in Nat
    BY FS_CardinalityType
<1>2. x \notin S => Cardinality(S \cup {x}) = Cardinality(S) + 1
    BY FS_AddElement
<1>3. x \in S => Cardinality(S \ {x}) = Cardinality(S) - 1 /\ Cardinality(S) > 0
    BY <1>1, FS_RemoveElement, FS_EmptySet
<1>4. QED
    BY <1>1, <1>2, <1>3

(* The sets that the counters count are finite. *)
LEMMA CountedFinite ==
    ASSUME NEW k
    PROVE  /\ IsFiniteSet(Admitted(k)) /\ IsFiniteSet(Waiting(k))
           /\ Cardinality(Admitted(k)) \in Nat /\ Cardinality(Waiting(k)) \in Nat
<1>1. Admitted(k) \subseteq Threads /\ Waiting(k) \subseteq Threads
    BY DEF Admitted, Waiting
<1>2. QED
    BY <1>1, ThreadsAssumption, FS_Subset, FS_CardinalityType

-----------------------------------------------------------------------------
(* Who runs, who sleeps, who owns the mutex *)

Placement == TypeOK /\ SchedInv /\ QueueInv /\ MutexInv

(* mutex_lock: the caller becomes the owner, or sleeps in the mutex's queue. *)
LEMMA MutexLockKeeps ==
    ASSUME Placement, ~(TimeSlice /\ Requeue),
           NEW next \in {"test", "done", "untest"},
           pc[active] \in {"lock", "relock", "unlock"},
           MutexLock(active, next), UNCHANGED <<sems, op>>
    PROVE  /\ active' \in Threads /\ exe' \in Seq(Threads)
           /\ thr' \in Threads \cup {NoThread} /\ lockq' \in Seq(Threads)
           /\ SchedInv' /\ QueueInv' /\ MutexInv'
<1>1. /\ active \in Threads /\ exe \in Seq(Threads) /\ lockq \in Seq(Threads)
      /\ Once(exe) /\ active \notin Elements(exe)
      /\ active \notin Elements(lockq)
      /\ active \notin Elements(semq["rd"]) /\ active \notin Elements(semq["wr"])
    BY DEF Placement, TypeOK, SchedInv, Asleep
<1>2. /\ pc' = [pc EXCEPT ![active] = next] /\ pc \in [Threads -> PCs]
      /\ semq' = semq /\ counter' = counter /\ op' = op
    BY DEF MutexLock, Goto, sems, Placement, TypeOK
<1>3. CASE thr = NoThread
  <2>1. thr' = active /\ UNCHANGED <<active, exe, lockq>>
      BY <1>3 DEF MutexLock, sched
  <2>2. SchedInv'
      BY <1>2, <2>1 DEF SchedInv, Asleep, Placement
  <2>3. QueueInv'
      BY <1>1, <1>2, <2>1 DEF QueueInv, Placement, Kinds
  <2>4. MutexInv'
      BY <1>1, <1>2, <1>3, <2>1, ThreadsAssumption DEF MutexInv, Placement, Critical
  <2>5. QED
      BY <1>1, <2>1, <2>2, <2>3, <2>4
<1>4. CASE thr # NoThread
  <2>1. ~Requeue
      BY <1>1, <1>4 DEF MutexInv, Placement, Critical
  <2>2. lockq' = Append(lockq, active) /\ Dispatch /\ thr' = thr
      BY <1>4, <2>1 DEF MutexLock
  <2>3. /\ active' \in Threads /\ exe' \in Seq(Threads)
        /\ Once(exe') /\ active' \notin Elements(exe')
        /\ {active'} \cup Elements(exe') = Elements(exe)
      BY <1>1, <2>2, DispatchKeeps
  <2>4. /\ lockq' \in Seq(Threads) /\ Once(lockq')
        /\ Elements(lockq') = Elements(lockq) \cup {active}
      BY <1>1, <2>2, ElementsAppend DEF Placement, QueueInv
  <2>5. SchedInv'
      BY <1>1, <1>2, <2>3, <2>4 DEF SchedInv, Asleep, Placement
  <2>6. QueueInv'
      BY <1>1, <1>2, <2>4 DEF QueueInv, Placement, Kinds
  <2>7. MutexInv'
    <3>1. ASSUME NEW t \in Threads
          PROVE  thr' = t <=> pc'[t] \in Critical /\ t \notin Elements(lockq')
        BY <1>1, <1>2, <2>2, <2>4 DEF MutexInv, Placement, Critical
    <3>2. QED
        BY <1>4, <2>1, <2>2, <3>1 DEF MutexInv
  <2>8. QED
      BY <2>2, <2>3, <2>4, <2>5, <2>6, <2>7 DEF Placement, TypeOK
<1>5. QED
    BY <1>3, <1>4

(* mutex_unlock by the owner: the first thread in the queue becomes the owner. *)
LEMMA MutexUnlockKeeps ==
    ASSUME Placement, ~(TimeSlice /\ Requeue),
           NEW next \in {"wait", "in", "out"},
           pc[active] \in {"park", "done", "undone"},
           MutexUnlock(active, next), UNCHANGED sems,
           \A t \in Threads \ {active} : op'[t] = op[t]
    PROVE  /\ active' = active /\ exe' \in Seq(Threads)
           /\ thr' \in Threads \cup {NoThread} /\ lockq' \in Seq(Threads)
           /\ SchedInv' /\ QueueInv' /\ MutexInv'
<1>1. /\ active \in Threads /\ exe \in Seq(Threads) /\ lockq \in Seq(Threads)
      /\ Once(exe) /\ active \notin Elements(exe)
      /\ active \notin Elements(lockq)
      /\ active \notin Elements(semq["rd"]) /\ active \notin Elements(semq["wr"])
      /\ Elements(lockq) \subseteq Threads
      /\ \A k \in Kinds : Elements(semq[k]) \subseteq Threads
    BY ElementsType DEF Placement, TypeOK, SchedInv, Asleep
<1>2. /\ pc' = [pc EXCEPT ![active] = next] /\ pc \in [Threads -> PCs]
      /\ semq' = semq /\ counter' = counter /\ active' = active
    BY DEF MutexUnlock, Goto, sems, Placement, TypeOK
<1>3. thr = active
    BY <1>1 DEF MutexInv, Placement, Critical
<1>4. CASE lockq = << >>
  <2>1. thr' = NoThread /\ UNCHANGED <<exe, lockq>>
      BY <1>3, <1>4 DEF MutexUnlock
  <2>2. SchedInv'
      BY <1>2, <2>1 DEF SchedInv, Asleep, Placement
  <2>3. QueueInv'
      BY <1>1, <1>2, <1>4, <2>1 DEF QueueInv, Placement, Kinds
  <2>4. MutexInv'
      BY <1>1, <1>2, <1>3, <1>4, <2>1, ThreadsAssumption DEF MutexInv, Placement, Critical
  <2>5. QED
      BY <1>1, <1>2, <2>1, <2>2, <2>3, <2>4
<1>5. CASE lockq # << >>
  <2> DEFINE h == Head(lockq)
  <2>1. ~Requeue
      BY <1>5 DEF MutexInv, Placement
  <2>2. thr' = h /\ lockq' = Tail(lockq) /\ exe' = Append(exe, h)
      BY <1>3, <1>5 DEF MutexUnlock
  <2>3. /\ h \in Threads /\ h \in Elements(lockq) /\ lockq' \in Seq(Threads) /\ Once(lockq')
        /\ Elements(lockq') = Elements(lockq) \ {h}
      BY <1>1, <1>5, <2>2, ElementsTail DEF Placement, QueueInv
  <2> HIDE DEF h
  <2>4. h \notin Elements(exe) /\ h # active
      BY <1>1, <2>3 DEF Placement, SchedInv, Asleep
  <2>5. /\ exe' \in Seq(Threads) /\ Once(exe')
        /\ Elements(exe') = Elements(exe) \cup {h}
      BY <1>1, <2>2, <2>3, <2>4, ElementsAppend
  <2>6. \A k \in Kinds : h \notin Elements(semq[k])
      BY <2>3 DEF Placement, QueueInv
  <2>7. SchedInv'
      BY <1>1, <1>2, <2>3, <2>4, <2>5, <2>6 DEF SchedInv, Asleep, Placement, Kinds
  <2>8. QueueInv'
      BY <1>1, <1>2, <2>3 DEF QueueInv, Placement, Kinds
  <2>9. MutexInv'
    <3>1. ASSUME NEW t \in Threads
          PROVE  thr' = t <=> pc'[t] \in Critical /\ t \notin Elements(lockq')
        BY <1>1, <1>2, <1>3, <2>2, <2>3, <2>4 DEF MutexInv, Placement, Critical, QueueInv
    <3>2. QED
        BY <2>1, <2>2, <2>3, <3>1, ThreadsAssumption DEF MutexInv
  <2>10. QED
      BY <1>2, <2>2, <2>3, <2>5, <2>7, <2>8, <2>9
<1>6. QED
    BY <1>4, <1>5

(* A thread that gives way, or loses the processor, keeps what it has. *)
LEMMA RotationKeeps ==
    ASSUME Placement, Rotate, UNCHANGED <<mutex, sems, op, pc>>,
           Requeue => thr # active
    PROVE  /\ active' \in Threads /\ exe' \in Seq(Threads)
           /\ SchedInv' /\ QueueInv' /\ MutexInv'
<1>1. /\ active \in Threads /\ exe \in Seq(Threads)
      /\ Once(exe) /\ active \notin Elements(exe)
    BY DEF Placement, TypeOK, SchedInv
<1>2. /\ active' \in Threads /\ exe' \in Seq(Threads)
      /\ Once(exe') /\ active' \notin Elements(exe')
      /\ {active'} \cup Elements(exe') = {active} \cup Elements(exe)
    BY <1>1, RotateKeeps
<1>3. thr' = thr /\ lockq' = lockq /\ semq' = semq /\ counter' = counter
      /\ op' = op /\ pc' = pc
    BY DEF mutex, sems
<1>4. SchedInv'
    BY <1>2, <1>3 DEF SchedInv, Asleep, Placement
<1>5. QueueInv'
    BY <1>3 DEF QueueInv, Placement
<1>6. MutexInv'
    BY <1>3 DEF MutexInv, Placement
<1>7. QED
    BY <1>2, <1>4, <1>5, <1>6

(* The active thread goes on in its own code, in or out of the mutex as before. *)
LEMMA OwnStepKeeps ==
    ASSUME Placement, NEW next \in PCs,
           UNCHANGED <<sched, mutex, sems>>,
           pc' = [pc EXCEPT ![active] = next],
           \A t \in Threads \ {active} : op'[t] = op[t],
           next \in Critical <=> pc[active] \in Critical
    PROVE  SchedInv' /\ QueueInv' /\ MutexInv'
<1>1. /\ active \in Threads /\ lockq \in Seq(Threads) /\ pc \in [Threads -> PCs]
      /\ active \notin Elements(lockq)
      /\ active \notin Elements(semq["rd"]) /\ active \notin Elements(semq["wr"])
      /\ Elements(lockq) \subseteq Threads
      /\ \A k \in Kinds : Elements(semq[k]) \subseteq Threads
    BY ElementsType DEF Placement, TypeOK, SchedInv, Asleep
<1>2. UNCHANGED <<active, exe, thr, lockq, counter, semq>>
    BY DEF sched, mutex, sems
<1>3. SchedInv'
    BY <1>2 DEF SchedInv, Asleep, Placement
<1>4. QueueInv'
    BY <1>1, <1>2 DEF QueueInv, Placement, Kinds
<1>5. MutexInv'
    BY <1>1, <1>2 DEF MutexInv, Placement
<1>6. QED
    BY <1>3, <1>4, <1>5

(* sem_wait: the caller takes a unit, or sleeps in the semaphore's queue. *)
LEMMA SemWaitKeeps ==
    ASSUME Placement, pc[active] = "wait", op[active] \in Kinds,
           SemWait(active, op[active], "relock"), UNCHANGED <<mutex, op>>
    PROVE  /\ active' \in Threads /\ exe' \in Seq(Threads)
           /\ counter' \in [Kinds -> Nat] /\ semq' \in [Kinds -> Seq(Threads)]
           /\ SchedInv' /\ QueueInv' /\ MutexInv'
<1> DEFINE k == op[active]
<1>1. /\ active \in Threads /\ exe \in Seq(Threads) /\ pc \in [Threads -> PCs]
      /\ lockq \in Seq(Threads)
      /\ Once(exe) /\ active \notin Elements(exe)
      /\ active \notin Elements(lockq)
      /\ active \notin Elements(semq["rd"]) /\ active \notin Elements(semq["wr"])
      /\ Elements(lockq) \subseteq Threads
      /\ counter \in [Kinds -> Nat] /\ semq \in [Kinds -> Seq(Threads)]
      /\ \A j \in Kinds : Elements(semq[j]) \subseteq Threads
    BY ElementsType DEF Placement, TypeOK, SchedInv, Asleep
<1>2. /\ pc' = [pc EXCEPT ![active] = "relock"]
      /\ thr' = thr /\ lockq' = lockq /\ op' = op
    BY DEF SemWait, Goto, mutex
<1>3. thr # active
    BY <1>1 DEF MutexInv, Placement, Critical
<1>4. CASE counter[k] > 0
  <2>1. /\ counter' = [counter EXCEPT ![k] = @ - 1]
        /\ UNCHANGED <<semq, active, exe>>
      BY <1>4 DEF SemWait, sched
  <2>2. counter' \in [Kinds -> Nat] /\ \A j \in Kinds : counter'[j] <= counter[j]
      BY <1>1, <1>4, <2>1
  <2>3. SchedInv'
      BY <1>2, <2>1 DEF SchedInv, Asleep, Placement
  <2>4. QueueInv'
    <3>1. \A j \in Kinds : counter'[j] > 0 => semq'[j] = << >>
        BY <1>1, <2>1, <2>2 DEF QueueInv, Placement
    <3>2. QED
        BY <1>1, <1>2, <2>1, <3>1 DEF QueueInv, Placement, Kinds
  <2>5. MutexInv'
      BY <1>1, <1>2, <2>1 DEF MutexInv, Placement, Critical
  <2>6. QED
      BY <1>1, <2>1, <2>2, <2>3, <2>4, <2>5
<1>5. CASE counter[k] = 0
  <2>1. /\ semq' = [semq EXCEPT ![k] = Append(@, active)] /\ counter' = counter
        /\ Dispatch
      BY <1>5 DEF SemWait
  <2>2. /\ active' \in Threads /\ exe' \in Seq(Threads)
        /\ Once(exe') /\ active' \notin Elements(exe')
        /\ {active'} \cup Elements(exe') = Elements(exe)
      BY <1>1, <2>1, DispatchKeeps
  <2>3. /\ semq' \in [Kinds -> Seq(Threads)] /\ Once(semq'[k])
        /\ Elements(semq'[k]) = Elements(semq[k]) \cup {active}
        /\ \A j \in Kinds \ {k} : semq'[j] = semq[j]
    <3>1. Once(semq[k]) /\ active \notin Elements(semq[k]) /\ semq[k] \in Seq(Threads)
        BY <1>1 DEF Placement, QueueInv, Kinds
    <3>2. QED
        BY <1>1, <2>1, <3>1, ElementsAppend
  <2>4. Elements(semq'["rd"]) \cup Elements(semq'["wr"])
          = Elements(semq["rd"]) \cup Elements(semq["wr"]) \cup {active}
      BY <2>3 DEF Kinds
  <2>5. SchedInv'
      BY <1>1, <1>2, <2>2, <2>4 DEF SchedInv, Asleep, Placement
  <2>6. QueueInv'
    <3>1. ASSUME NEW j \in Kinds
          PROVE  /\ Once(semq'[j])
                 /\ \A t \in Elements(semq'[j]) : pc'[t] = "relock" /\ op'[t] = j
                 /\ counter'[j] > 0 => semq'[j] = << >>
        BY <1>1, <1>2, <1>5, <2>1, <2>3 DEF QueueInv, Placement
    <3>2. \A t \in Elements(lockq') : pc'[t] \in {"test", "done", "untest"}
        BY <1>1, <1>2 DEF QueueInv, Placement
    <3>3. QED
        BY <1>2, <3>1, <3>2 DEF QueueInv, Placement
  <2>7. MutexInv'
    <3>1. Requeue => thr = NoThread
        BY <1>3 DEF MutexInv, Placement
    <3>2. QED
        BY <1>1, <1>2, <3>1 DEF MutexInv, Placement, Critical
  <2>8. QED
      BY <1>1, <2>1, <2>2, <2>3, <2>5, <2>6, <2>7
<1>6. QED
    BY <1>1, <1>4, <1>5

(* sem_post by a thread that stays where it is with respect to the mutex. *)
LEMMA SemPostKeeps ==
    ASSUME Placement, NEW k \in Kinds, SemPost(k), UNCHANGED <<mutex, op>>,
           NEW next \in PCs, pc' = [pc EXCEPT ![active] = next],
           next \in Critical <=> pc[active] \in Critical
    PROVE  /\ active' = active /\ exe' \in Seq(Threads)
           /\ counter' \in [Kinds -> Nat] /\ semq' \in [Kinds -> Seq(Threads)]
           /\ SchedInv' /\ QueueInv' /\ MutexInv'
<1>1. /\ active \in Threads /\ exe \in Seq(Threads) /\ pc \in [Threads -> PCs]
      /\ lockq \in Seq(Threads)
      /\ Once(exe) /\ active \notin Elements(exe)
      /\ active \notin Elements(lockq)
      /\ active \notin Elements(semq["rd"]) /\ active \notin Elements(semq["wr"])
      /\ Elements(lockq) \subseteq Threads
      /\ \A j \in Kinds : Elements(semq[j]) \subseteq Threads
    BY ElementsType DEF Placement, TypeOK, SchedInv, Asleep
<1>2. thr' = thr /\ lockq' = lockq /\ op' = op
    BY DEF mutex
<1>3. /\ active' = active /\ exe' \in Seq(Threads)
      /\ counter' \in [Kinds -> Nat] /\ semq' \in [Kinds -> Seq(Threads)]
      /\ \A j \in Kinds \ {k} : counter'[j] = counter[j] /\ semq'[j] = semq[j]
    BY SemPostEffect DEF Placement
<1>4. MutexInv'
    BY <1>1, <1>2, <1>3 DEF MutexInv, Placement
<1>5. CASE semq[k] = << >> /\ semq' = semq /\ exe' = exe
  <2>1. SchedInv'
      BY <1>2, <1>3, <1>5 DEF SchedInv, Asleep, Placement
  <2>2. QueueInv'
      BY <1>1, <1>2, <1>3, <1>5 DEF QueueInv, Placement, Kinds
  <2>3. QED
      BY <1>3, <1>4, <2>1, <2>2
<1>6. ASSUME NEW h \in Elements(semq[k]),
             Elements(semq'[k]) = Elements(semq[k]) \ {h},
             Elements(exe') = Elements(exe) \cup {h},
             Once(exe) /\ h \notin Elements(exe) => Once(exe'),
             Once(semq'[k]), counter'[k] = counter[k], counter[k] = 0
      PROVE  SchedInv' /\ QueueInv'
  <2>1. /\ h \in Threads /\ h # active /\ h \notin Elements(exe) /\ h \notin Elements(lockq)
        /\ pc[h] = "relock" /\ op[h] = k
      BY <1>1, <1>6 DEF Placement, SchedInv, Asleep, QueueInv, Kinds
  <2>2. Elements(semq'["rd"]) \cup Elements(semq'["wr"])
          = (Elements(semq["rd"]) \cup Elements(semq["wr"])) \ {h}
      BY <1>3, <1>6, <2>1 DEF Kinds, Placement, QueueInv
  <2>3. SchedInv'
      BY <1>1, <1>2, <1>3, <1>6, <2>1, <2>2 DEF SchedInv, Asleep, Placement
  <2>4. QueueInv'
    <3>1. ASSUME NEW j \in Kinds
          PROVE  /\ Once(semq'[j])
                 /\ \A t \in Elements(semq'[j]) : pc'[t] = "relock" /\ op'[t] = j
                 /\ counter'[j] > 0 => semq'[j] = << >>
        BY <1>1, <1>2, <1>3, <1>6 DEF QueueInv, Placement, Kinds
    <3>2. \A t \in Elements(lockq') : pc'[t] \in {"test", "done", "untest"}
        BY <1>1, <1>2 DEF QueueInv, Placement
    <3>3. QED
        BY <1>2, <3>1, <3>2 DEF QueueInv, Placement
  <2>5. QED
      BY <2>3, <2>4
<1>7. QED
    BY <1>3, <1>4, <1>5, <1>6, SemPostEffect DEF Placement

-----------------------------------------------------------------------------
(* What the counters count *)

Accounts == ClientInv /\ Counts /\ LoopInv /\ AdmitInv /\ WakeInv

(* The numbers in the accounts are natural numbers. *)
LEMMA CountedNat ==
    ASSUME TypeOK
    PROVE  /\ Cardinality(Admitted("rd")) \in Nat /\ Cardinality(Waiting("rd")) \in Nat
           /\ Cardinality(Admitted("wr")) \in Nat /\ Cardinality(Waiting("wr")) \in Nat
           /\ nleitores \in Nat /\ em_escrita \in Nat /\ i \in Nat
           /\ leitores_espera \in Nat /\ escritores_espera \in Nat
           /\ counter["rd"] \in Nat /\ counter["wr"] \in Nat
BY CountedFinite DEF TypeOK, Kinds

(* A step that moves nobody between the groups leaves the accounts right. *)
LEMMA SameGroups ==
    ASSUME Counts, UNCHANGED <<state, i, counter>>,
           \A k \in Kinds : Admitted(k)' = Admitted(k) /\ Waiting(k)' = Waiting(k)
    PROVE  Counts'
BY DEF Counts, state, Kinds

(* The steps of one thread that change neither a counter nor a queue of the
   lock: the call, the mutex operations and the return. *)
LEMMA QuietKeeps ==
    ASSUME Placement, Accounts,
           NEW next \in PCs,
           <<pc[active], next>> \in
             {<<"out", "lock">>, <<"lock", "test">>, <<"park", "wait">>, <<"relock", "done">>,
              <<"done", "in">>, <<"in", "unlock">>, <<"unlock", "untest">>, <<"undone", "out">>},
           pc' = [pc EXCEPT ![active] = next],
           \A t \in Threads \ {active} : op'[t] = op[t],
           IF next = "lock" THEN op'[active] \in Kinds
           ELSE IF next = "out" THEN op'[active] = "none" ELSE op'[active] = op[active],
           UNCHANGED <<sems, state, i>>
    PROVE  Accounts'
<1>1. /\ active \in Threads /\ pc \in [Threads -> PCs]
      /\ active \notin Elements(semq["rd"]) /\ active \notin Elements(semq["wr"])
      /\ semq' = semq /\ counter' = counter
    BY DEF Placement, TypeOK, SchedInv, Asleep, sems
<1>2. \A t \in Threads : pc'[t] = "post" <=> pc[t] = "post"
    BY <1>1
<1>3. ClientInv'
    BY <1>1 DEF ClientInv, Accounts, Kinds
<1>4. ASSUME NEW k \in Kinds
      PROVE  Admitted(k)' = Admitted(k) /\ Waiting(k)' = Waiting(k)
  <2>1. active \notin Elements(semq[k])
      BY <1>1 DEF Kinds
  <2>2. ASSUME NEW t \in Threads
        PROVE  t \in Admitted(k)' <=> t \in Admitted(k)
      BY <1>1, <2>1 DEF Admitted, Kinds
  <2>3. ASSUME NEW t \in Threads
        PROVE  t \in Waiting(k)' <=> t \in Waiting(k)
      BY <1>1, <2>1 DEF Waiting, Kinds
  <2>4. QED
      BY <2>2, <2>3 DEF Admitted, Waiting
<1>5. Counts'
    BY <1>1, <1>4, SameGroups DEF Accounts
<1>6. LoopInv' /\ AdmitInv' /\ WakeInv'
    BY <1>2 DEF LoopInv, AdmitInv, WakeInv, Accounts, state
<1>7. QED
    BY <1>3, <1>5, <1>6 DEF Accounts

(* The active thread's pc tells which group it is in. *)
LEMMA ActiveGroup ==
    ASSUME Placement, NEW k \in Kinds
    PROVE  /\ active \in Admitted(k) <=>
                op[active] = k /\ pc[active] \in {"done", "in", "unlock", "untest", "relock"}
           /\ active \in Waiting(k) <=> op[active] = k /\ pc[active] \in {"park", "wait"}
<1>1. active \in Threads /\ active \notin Elements(semq[k])
    BY DEF Placement, TypeOK, SchedInv, Asleep, Kinds
<1>2. QED
    BY <1>1 DEF Admitted, Waiting

(* A thread in the mutex is the only one: nobody else is in the post loop. *)
LEMMA OnlyPoster ==
    ASSUME Placement, pc[active] \in Critical
    PROVE  \A t \in Threads \ {active} : pc[t] # "post"
<1>1. active \in Threads /\ active \notin Elements(lockq)
    BY DEF Placement, TypeOK, SchedInv, Asleep
<1>2. thr = active
    BY <1>1 DEF Placement, MutexInv
<1>3. QED
    BY <1>2 DEF Placement, MutexInv, QueueInv, Critical

(* A new reader is counted where the test in rdlock puts it. *)
LEMMA RdTestAccounts ==
    ASSUME Placement, Accounts, RdTest(active)
    PROVE  Accounts' /\ nleitores' \in Nat /\ leitores_espera' \in Nat
<1>1. /\ active \in Threads /\ pc \in [Threads -> PCs] /\ op[active] = "rd" /\ pc[active] = "test"
      /\ semq' = semq /\ counter' = counter /\ op' = op /\ i' = i
      /\ em_escrita' = em_escrita /\ escritores_espera' = escritores_espera
      /\ nleitores \in Nat /\ leitores_espera \in Nat /\ i \in Nat
      /\ counter["rd"] \in Nat /\ counter["wr"] \in Nat /\ escritores_espera \in Nat
    BY DEF Placement, TypeOK, RdTest, sems, Kinds
<1>2. Admitted("wr")' = Admitted("wr") /\ Waiting("wr")' = Waiting("wr")
    BY <1>1 DEF Admitted, Waiting, RdTest, Goto
<1>3. \A t \in Threads : pc[t] # "post"
    BY <1>1, OnlyPoster DEF Critical
<1>4. active \notin Admitted("rd") /\ active \notin Waiting("rd")
    BY <1>1, ActiveGroup DEF Kinds
<1>5. CASE ReaderMustWait
  <2>1. /\ pc' = [pc EXCEPT ![active] = "park"]
        /\ leitores_espera' = leitores_espera + 1 /\ nleitores' = nleitores
      BY <1>5 DEF RdTest, Goto
  <2>2. Admitted("rd")' = Admitted("rd") /\ Waiting("rd")' = Waiting("rd") \cup {active}
      BY <1>1, <2>1 DEF Admitted, Waiting
  <2>3. Cardinality(Waiting("rd")') = Cardinality(Waiting("rd")) + 1
      BY <1>4, <2>2, CountedFinite, CardinalityStep
  <2>4. Counts'
      BY <1>1, <1>2, <2>1, <2>2, <2>3, CountedNat DEF Counts, Accounts, Placement
  <2>5. ClientInv' /\ LoopInv' /\ AdmitInv' /\ WakeInv'
      BY <1>1, <1>3, <1>5, <2>1
      DEF ClientInv, LoopInv, AdmitInv, WakeInv, Accounts, ReaderMustWait
  <2>6. QED
      BY <1>1, <2>1, <2>4, <2>5 DEF Accounts
<1>6. CASE ~ReaderMustWait
  <2>1. /\ pc' = [pc EXCEPT ![active] = "done"]
        /\ nleitores' = nleitores + 1 /\ leitores_espera' = leitores_espera
      BY <1>6 DEF RdTest, Goto
  <2>2. Admitted("rd")' = Admitted("rd") \cup {active} /\ Waiting("rd")' = Waiting("rd")
      BY <1>1, <2>1 DEF Admitted, Waiting
  <2>3. Cardinality(Admitted("rd")') = Cardinality(Admitted("rd")) + 1
      BY <1>4, <2>2, CountedFinite, CardinalityStep
  <2>4. Counts'
      BY <1>1, <1>2, <2>1, <2>2, <2>3, CountedNat DEF Counts, Accounts, Placement
  <2>5. ClientInv' /\ LoopInv' /\ AdmitInv' /\ WakeInv'
      BY <1>1, <1>3, <1>6, <2>1
      DEF ClientInv, LoopInv, AdmitInv, WakeInv, Accounts, ReaderMustWait
  <2>6. QED
      BY <1>1, <2>1, <2>4, <2>5 DEF Accounts
<1>7. QED
    BY <1>5, <1>6

(* A new writer is counted where the test in wrlock puts it. *)
LEMMA WrTestAccounts ==
    ASSUME Placement, Accounts, WrTest(active)
    PROVE  Accounts' /\ em_escrita' \in {0, 1} /\ escritores_espera' \in Nat
<1>1. /\ active \in Threads /\ pc \in [Threads -> PCs] /\ op[active] = "wr" /\ pc[active] = "test"
      /\ semq' = semq /\ counter' = counter /\ op' = op /\ i' = i
      /\ nleitores' = nleitores /\ leitores_espera' = leitores_espera
      /\ nleitores \in Nat /\ leitores_espera \in Nat /\ i \in Nat /\ em_escrita \in {0, 1}
      /\ counter["rd"] \in Nat /\ counter["wr"] \in Nat /\ escritores_espera \in Nat
    BY DEF Placement, TypeOK, WrTest, sems, Kinds
<1>2. Admitted("rd")' = Admitted("rd") /\ Waiting("rd")' = Waiting("rd")
    BY <1>1 DEF Admitted, Waiting, WrTest, Goto
<1>3. \A t \in Threads : pc[t] # "post"
    BY <1>1, OnlyPoster DEF Critical
<1>4. active \notin Admitted("wr") /\ active \notin Waiting("wr")
    BY <1>1, ActiveGroup DEF Kinds
<1>5. CASE WriterMustWait
  <2>1. /\ pc' = [pc EXCEPT ![active] = "park"]
        /\ escritores_espera' = escritores_espera + 1 /\ em_escrita' = em_escrita
      BY <1>5 DEF WrTest, Goto
  <2>2. Admitted("wr")' = Admitted("wr") /\ Waiting("wr")' = Waiting("wr") \cup {active}
      BY <1>1, <2>1 DEF Admitted, Waiting
  <2>3. Cardinality(Waiting("wr")') = Cardinality(Waiting("wr")) + 1
      BY <1>4, <2>2, CountedFinite, CardinalityStep
  <2>4. Counts'
      BY <1>1, <1>2, <2>1, <2>2, <2>3, CountedNat DEF Counts, Accounts, Placement
  <2>5. ClientInv' /\ LoopInv' /\ AdmitInv' /\ WakeInv'
      BY <1>1, <1>3, <1>5, <2>1
      DEF ClientInv, LoopInv, AdmitInv, WakeInv, Accounts, WriterMustWait
  <2>6. QED
      BY <1>1, <2>1, <2>4, <2>5 DEF Accounts
<1>6. CASE ~WriterMustWait
  <2>1. /\ pc' = [pc EXCEPT ![active] = "done"]
        /\ em_escrita' = 1 /\ em_escrita = 0 /\ escritores_espera' = escritores_espera
      BY <1>1, <1>6 DEF WrTest, Goto, WriterMustWait
  <2>2. Admitted("wr")' = Admitted("wr") \cup {active} /\ Waiting("wr")' = Waiting("wr")
      BY <1>1, <2>1 DEF Admitted, Waiting
  <2>3. Cardinality(Admitted("wr")') = Cardinality(Admitted("wr")) + 1
      BY <1>4, <2>2, CountedFinite, CardinalityStep
  <2>4. Counts'
      BY <1>1, <1>2, <2>1, <2>2, <2>3, CountedNat DEF Counts, Accounts, Placement
  <2>5. ClientInv' /\ LoopInv' /\ AdmitInv' /\ WakeInv'
      BY <1>1, <1>3, <1>6, <2>1
      DEF ClientInv, LoopInv, AdmitInv, WakeInv, Accounts, WriterMustWait
  <2>6. QED
      BY <1>1, <2>1, <2>4, <2>5 DEF Accounts
<1>7. QED
    BY <1>5, <1>6

(* In sem_wait a client that takes a unit becomes one that was let in; one that
   sleeps goes on waiting. *)
LEMMA WaitAccounts ==
    ASSUME Placement, Accounts, pc[active] = "wait",
           SemWait(active, op[active], "relock"), UNCHANGED <<state, i, op>>
    PROVE  op[active] \in Kinds /\ Accounts'
<1>1. /\ active \in Threads /\ pc \in [Threads -> PCs] /\ op \in [Threads -> Kinds \cup {"none"}]
      /\ counter \in [Kinds -> Nat] /\ semq \in [Kinds -> Seq(Threads)]
      /\ active \notin Elements(semq["rd"]) /\ active \notin Elements(semq["wr"])
      /\ op' = op /\ i' = i /\ nleitores' = nleitores /\ em_escrita' = em_escrita
      /\ leitores_espera' = leitores_espera /\ escritores_espera' = escritores_espera
    BY DEF Placement, TypeOK, SchedInv, Asleep, state
<1>2. PICK k \in Kinds : k = op[active]
    BY <1>1 DEF Accounts, ClientInv
<1>3. pc' = [pc EXCEPT ![active] = "relock"]
    BY DEF SemWait, Goto
<1>4. active \in Waiting(k) /\ active \notin Admitted(k) /\ active \notin Elements(semq[k])
    BY <1>1, <1>2, ActiveGroup DEF Kinds
<1>5. ClientInv' /\ LoopInv' /\ AdmitInv' /\ WakeInv'
  <2>1. \A t \in Threads : pc'[t] = "post" <=> pc[t] = "post"
      BY <1>1, <1>3
  <2>2. ClientInv'
      BY <1>1, <1>3 DEF ClientInv, Accounts
  <2>3. QED
      BY <1>1, <2>1, <2>2 DEF LoopInv, AdmitInv, WakeInv, Accounts
<1>6. /\ Counts /\ TypeOK
      /\ nleitores' = nleitores /\ em_escrita' = em_escrita /\ i' = i
      /\ leitores_espera' = leitores_espera /\ escritores_espera' = escritores_espera
    BY DEF Accounts, Placement, state
<1>7. CASE counter[k] > 0
  <2>1. counter' = [counter EXCEPT ![k] = @ - 1] /\ semq' = semq
      BY <1>2, <1>7 DEF SemWait
  <2>2. ASSUME k = "rd" PROVE Counts'
    <3>1. /\ Admitted("rd")' = Admitted("rd") \cup {active}
          /\ Waiting("rd")' = Waiting("rd") \ {active}
          /\ Admitted("wr")' = Admitted("wr") /\ Waiting("wr")' = Waiting("wr")
          /\ active \in Waiting("rd") /\ active \notin Admitted("rd")
        BY <1>1, <1>2, <1>3, <1>4, <2>1, <2>2 DEF Admitted, Waiting
    <3>2. /\ Cardinality(Admitted("rd")') = Cardinality(Admitted("rd")) + 1
          /\ Cardinality(Waiting("rd")') = Cardinality(Waiting("rd")) - 1
        BY <3>1, CountedFinite, CardinalityStep
    <3>3. counter'["rd"] = counter["rd"] - 1 /\ counter'["wr"] = counter["wr"]
        BY <1>1, <2>1, <2>2 DEF Kinds
    <3>4. QED
        BY <1>6, <3>1, <3>2, <3>3, CountedNat DEF Counts
  <2>3. ASSUME k = "wr" PROVE Counts'
    <3>1. /\ Admitted("wr")' = Admitted("wr") \cup {active}
          /\ Waiting("wr")' = Waiting("wr") \ {active}
          /\ Admitted("rd")' = Admitted("rd") /\ Waiting("rd")' = Waiting("rd")
          /\ active \in Waiting("wr") /\ active \notin Admitted("wr")
        BY <1>1, <1>2, <1>3, <1>4, <2>1, <2>3 DEF Admitted, Waiting
    <3>2. /\ Cardinality(Admitted("wr")') = Cardinality(Admitted("wr")) + 1
          /\ Cardinality(Waiting("wr")') = Cardinality(Waiting("wr")) - 1
        BY <3>1, CountedFinite, CardinalityStep
    <3>3. counter'["wr"] = counter["wr"] - 1 /\ counter'["rd"] = counter["rd"]
        BY <1>1, <2>1, <2>3 DEF Kinds
    <3>4. QED
        BY <1>6, <3>1, <3>2, <3>3, CountedNat DEF Counts
  <2>4. QED
      BY <1>2, <1>5, <2>2, <2>3 DEF Accounts, Kinds
<1>8. CASE counter[k] = 0
  <2>1. semq' = [semq EXCEPT ![k] = Append(@, active)] /\ counter' = counter
      BY <1>2, <1>8 DEF SemWait
  <2>2. /\ Elements(semq'[k]) = Elements(semq[k]) \cup {active}
        /\ \A j \in Kinds \ {k} : semq'[j] = semq[j]
      BY <1>1, <1>2, <2>1, ElementsAppend
  <2>3. \A j \in Kinds : Admitted(j)' = Admitted(j) /\ Waiting(j)' = Waiting(j)
    <3>1. Admitted(k)' = Admitted(k) /\ Waiting(k)' = Waiting(k)
        BY <1>1, <1>2, <1>3, <1>4, <2>2 DEF Admitted, Waiting
    <3>2. \A j \in Kinds \ {k} : Admitted(j)' = Admitted(j) /\ Waiting(j)' = Waiting(j)
        BY <1>1, <1>2, <1>3, <2>2 DEF Admitted, Waiting
    <3>3. QED
        BY <3>1, <3>2
  <2>4. Counts'
      BY <1>1, <2>1, <2>3, SameGroups DEF Accounts
  <2>5. QED
      BY <1>2, <1>5, <2>4 DEF Accounts
<1>9. QED
    BY <1>1, <1>2, <1>7, <1>8 DEF Placement, TypeOK

(* A sem_post lets one more client in, and takes one from those that wait,
   whether or not that client has reached sem_wait.  The thread that posts may
   be leaving at the same time. *)
LEMMA SemPostGroups ==
    ASSUME Placement, NEW k \in Kinds, SemPost(k), op' = op,
           NEW next \in {"post", "undone"}, pc' = [pc EXCEPT ![active] = next],
           pc[active] \in {"post", "untest"}
    PROVE  /\ \A j \in Kinds \ {k} :
                /\ Admitted(j)' = Admitted(j) \ {active}
                /\ Waiting(j)' = Waiting(j)
                /\ counter'[j] = counter[j]
           /\ Cardinality(Admitted(k)') + counter'[k]
                = Cardinality(Admitted(k) \ {active}) + counter[k] + 1
           /\ Cardinality(Waiting(k)') - counter'[k]
                = Cardinality(Waiting(k)) - counter[k] - 1
<1>1. /\ active \in Threads /\ pc \in [Threads -> PCs]
      /\ \A j \in Kinds : active \notin Elements(semq[j]) /\ Elements(semq[j]) \subseteq Threads
      /\ counter[k] \in Nat /\ counter'[k] \in Nat
    BY ElementsType, SemPostEffect DEF Placement, TypeOK, SchedInv, Asleep, Kinds
<1>2. \A j \in Kinds \ {k} : counter'[j] = counter[j] /\ semq'[j] = semq[j]
    BY SemPostEffect DEF Placement
<1>3. \A j \in Kinds \ {k} : Admitted(j)' = Admitted(j) \ {active} /\ Waiting(j)' = Waiting(j)
    BY <1>1, <1>2 DEF Admitted, Waiting
<1> DEFINE A == Admitted(k) \ {active}
<1>4. /\ IsFiniteSet(A) /\ Cardinality(A) \in Nat
      /\ IsFiniteSet(Waiting(k)) /\ Cardinality(Waiting(k)) \in Nat
    BY CountedFinite, FS_Subset, FS_CardinalityType
<1>5. CASE semq' = semq /\ counter'[k] = counter[k] + 1
  <2>1. Admitted(k)' = A /\ Waiting(k)' = Waiting(k)
      BY <1>1, <1>5 DEF Admitted, Waiting
  <2> HIDE DEF A
  <2>2. /\ Cardinality(Admitted(k)') + counter'[k] = Cardinality(A) + counter[k] + 1
        /\ Cardinality(Waiting(k)') - counter'[k] = Cardinality(Waiting(k)) - counter[k] - 1
      BY <1>1, <1>4, <1>5, <2>1
  <2>3. QED
      BY <1>2, <1>3, <2>2 DEF A
<1>6. ASSUME NEW h \in Elements(semq[k]), Elements(semq'[k]) = Elements(semq[k]) \ {h},
             counter'[k] = counter[k]
      PROVE  /\ Cardinality(Admitted(k)') + counter'[k] = Cardinality(A) + counter[k] + 1
             /\ Cardinality(Waiting(k)') - counter'[k] = Cardinality(Waiting(k)) - counter[k] - 1
  <2>1. h \in Threads /\ h # active /\ pc[h] = "relock" /\ op[h] = k
      BY <1>1, <1>6 DEF Placement, QueueInv
  <2>2. h \notin A /\ h \in Waiting(k)
      BY <1>6, <2>1 DEF Admitted, Waiting
  <2>3. Admitted(k)' = A \cup {h} /\ Waiting(k)' = Waiting(k) \ {h}
      BY <1>1, <1>6, <2>1 DEF Admitted, Waiting
  <2> HIDE DEF A
  <2>4. /\ Cardinality(Admitted(k)') = Cardinality(A) + 1
        /\ Cardinality(Waiting(k)') = Cardinality(Waiting(k)) - 1
      BY <1>4, <2>2, <2>3, CardinalityStep
  <2>5. QED
      BY <1>1, <1>4, <1>6, <2>4
<1>7. QED
    BY <1>2, <1>3, <1>5, <1>6, SemPostEffect DEF Placement

(* Outside the mutex's queue, a leaving client is one of those let in, and the
   lock is in the state the unlock code takes it to be in. *)
LEMMA LeavingClient ==
    ASSUME Placement, Accounts, pc[active] = "untest"
    PROVE  /\ em_escrita = 1 => op[active] = "wr" /\ nleitores = 0
           /\ em_escrita = 0 => op[active] = "rd" /\ nleitores > 0
           /\ op[active] \in Kinds /\ active \in Admitted(op[active])
<1>1. op[active] \in Kinds /\ active \in Threads
    BY DEF Accounts, ClientInv, Placement, TypeOK
<1>2. active \in Admitted(op[active])
    BY <1>1, ActiveGroup
<1>3. op[active] = "rd" => nleitores > 0
  <2>1. op[active] = "rd" => Cardinality(Admitted("rd")) > 0
      BY <1>2, CountedFinite, CardinalityStep
  <2>2. Counts /\ TypeOK
      BY DEF Accounts, Placement
  <2>3. QED
      BY <2>1, <2>2, CountedNat DEF Counts
<1>4. op[active] = "wr" => em_escrita > 0
  <2>1. op[active] = "wr" => Cardinality(Admitted("wr")) > 0
      BY <1>2, CountedFinite, CardinalityStep
  <2>2. Counts /\ TypeOK
      BY DEF Accounts, Placement
  <2>3. QED
      BY <2>1, <2>2, CountedNat DEF Counts
<1>5. AdmitInv /\ em_escrita \in {0, 1}
    BY DEF Accounts, Placement, TypeOK
<1>6. QED
    BY <1>1, <1>2, <1>3, <1>4, <1>5 DEF AdmitInv, Kinds

(* A writer that leaves: into the post loop, to the next writer, or to nobody. *)
LEMMA WriterUnlockAccounts ==
    ASSUME Placement, Accounts, WriterUnlock(active)
    PROVE  /\ Accounts' /\ em_escrita' \in {0, 1} /\ escritores_espera' \in Nat /\ i' \in Nat
<1>1. /\ Counts /\ TypeOK /\ pc[active] = "untest" /\ em_escrita = 1
      /\ nleitores' = nleitores /\ leitores_espera' = leitores_espera
    BY DEF Accounts, Placement, WriterUnlock
<1>2. op' = op /\ active \in Threads /\ pc \in [Threads -> PCs]
    BY DEF WriterUnlock, Placement, TypeOK
<1>3. op[active] = "wr" /\ nleitores = 0 /\ active \in Admitted("wr") /\ active \notin Admitted("rd")
    BY <1>1, LeavingClient, ActiveGroup DEF Kinds
<1>4. Cardinality(Admitted("wr") \ {active}) = Cardinality(Admitted("wr")) - 1
    BY <1>3, CountedFinite, CardinalityStep
<1>5. Cardinality(Admitted("wr")) = 1 /\ counter["wr"] = 0
  <2>1. Cardinality(Admitted("wr")) > 0
      BY <1>3, CountedFinite, CardinalityStep
  <2>2. QED
      BY <1>1, <2>1, CountedNat DEF Counts
<1>6. \A t \in Threads : pc[t] # "post"
    BY <1>1, OnlyPoster DEF Critical
<1>7. i = 0
    BY <1>6 DEF Accounts, LoopInv
<1>8. ASSUME NEW next \in {"post", "undone"}, pc' = [pc EXCEPT ![active] = next],
             UNCHANGED <<sems, escritores_espera>>, em_escrita' = 0, i' = 0
      PROVE  Counts'
  <2>1. semq' = semq /\ counter' = counter /\ escritores_espera' = escritores_espera
      BY <1>8 DEF sems
  <2>2. /\ Admitted("wr")' = Admitted("wr") \ {active} /\ Admitted("rd")' = Admitted("rd")
        /\ Waiting("wr")' = Waiting("wr") /\ Waiting("rd")' = Waiting("rd")
      BY <1>1, <1>2, <1>3, <1>8, <2>1 DEF Admitted, Waiting
  <2>3. Cardinality(Admitted("wr")') = 0
      BY <1>4, <1>5, <2>2
  <2>4. QED
      BY <1>1, <1>5, <1>7, <1>8, <2>1, <2>2, <2>3, CountedNat DEF Counts
<1>9. ASSUME leitores_espera > 0, em_escrita' = 0, i' = 0, Goto(active, "post"),
             UNCHANGED <<sched, sems, escritores_espera>>
      PROVE  Accounts' /\ escritores_espera' \in Nat
  <2>1. pc' = [pc EXCEPT ![active] = "post"]
      BY <1>9 DEF Goto
  <2>2. Counts'
      BY <1>8, <1>9, <2>1
  <2>3. ClientInv' /\ LoopInv' /\ AdmitInv' /\ WakeInv'
      BY <1>1, <1>2, <1>3, <1>6, <1>9, <2>1, CountedNat
      DEF ClientInv, LoopInv, AdmitInv, WakeInv, Accounts
  <2>4. QED
      BY <1>1, <1>9, <2>2, <2>3 DEF Accounts, TypeOK
<1>10. ASSUME leitores_espera = 0, escritores_espera = 0, em_escrita' = 0, Goto(active, "undone"),
              UNCHANGED <<sched, sems, escritores_espera, i>>
       PROVE  Accounts' /\ escritores_espera' \in Nat
  <2>1. pc' = [pc EXCEPT ![active] = "undone"] /\ i' = 0
      BY <1>7, <1>10 DEF Goto
  <2>2. Counts'
      BY <1>8, <1>10, <2>1
  <2>3. ClientInv' /\ LoopInv' /\ AdmitInv' /\ WakeInv'
      BY <1>1, <1>2, <1>3, <1>6, <1>10, <2>1
      DEF ClientInv, LoopInv, AdmitInv, WakeInv, Accounts
  <2>4. QED
      BY <1>1, <1>10, <2>2, <2>3 DEF Accounts, TypeOK
<1>11. ASSUME leitores_espera = 0, escritores_espera > 0, HandToWriter, Goto(active, "undone"),
              UNCHANGED i
       PROVE  Accounts' /\ em_escrita' = 1 /\ escritores_espera' \in Nat
  <2>1. /\ pc' = [pc EXCEPT ![active] = "undone"] /\ i' = i
        /\ SemPost("wr") /\ em_escrita' = 1 /\ escritores_espera' = escritores_espera - 1
      BY <1>11 DEF Goto, HandToWriter
  <2>2. /\ Admitted("rd")' = Admitted("rd") /\ Waiting("rd")' = Waiting("rd")
        /\ counter'["rd"] = counter["rd"]
        /\ Cardinality(Admitted("wr")') + counter'["wr"] = 1
        /\ Cardinality(Waiting("wr")') - counter'["wr"]
             = Cardinality(Waiting("wr")) - counter["wr"] - 1
    <3>1. /\ Admitted("rd") \ {active} = Admitted("rd")
          /\ Cardinality(Admitted("wr") \ {active}) + counter["wr"] + 1 = 1
        BY <1>3, <1>4, <1>5
    <3>2. QED
        BY <1>1, <1>2, <2>1, <3>1, SemPostGroups DEF Kinds
  <2>3. counter'["wr"] \in Nat /\ Cardinality(Admitted("wr")') \in Nat
        /\ Cardinality(Waiting("wr")') \in Nat
    <3>1. counter'["wr"] \in Nat
        BY <2>1, SemPostEffect DEF Placement, Kinds
    <3>2. Admitted("wr")' \subseteq Threads /\ Waiting("wr")' \subseteq Threads
        BY DEF Admitted, Waiting
    <3>3. QED
        BY <3>1, <3>2, ThreadsAssumption, FS_Subset, FS_CardinalityType
  <2>4. Counts'
      BY <1>1, <2>1, <2>2, <2>3, CountedNat DEF Counts
  <2>5. ClientInv' /\ LoopInv' /\ AdmitInv' /\ WakeInv'
      BY <1>1, <1>2, <1>3, <1>6, <1>7, <1>11, <2>1, CountedNat
      DEF ClientInv, LoopInv, AdmitInv, WakeInv, Accounts
  <2>6. QED
      BY <1>1, <1>11, <2>1, <2>4, <2>5, CountedNat DEF Accounts
<1>12. QED
    BY <1>1, <1>7, <1>9, <1>10, <1>11 DEF WriterUnlock

(* The post loop: every reader that is posted for is counted in before it runs,
   and all that waited are served when the loop ends. *)
LEMMA PostReadersAccounts ==
    ASSUME Placement, Accounts, PostReaders(active)
    PROVE  Accounts' /\ nleitores' \in Nat /\ leitores_espera' \in Nat /\ i' \in Nat
<1>1. /\ Counts /\ TypeOK /\ pc[active] = "post" /\ active \in Threads /\ pc \in [Threads -> PCs]
      /\ em_escrita' = em_escrita /\ escritores_espera' = escritores_espera /\ op' = op
    BY DEF Accounts, Placement, PostReaders, TypeOK
<1>2. em_escrita = 0 /\ leitores_espera > 0 /\ i <= leitores_espera /\ i <= nleitores
    BY <1>1 DEF Accounts, LoopInv
<1>3. active \notin Admitted("rd") /\ active \notin Admitted("wr")
    BY <1>1, ActiveGroup DEF Kinds
<1>4. \A t \in Threads \ {active} : pc[t] # "post"
    BY <1>1, OnlyPoster DEF Critical
<1>5. ASSUME i < leitores_espera, SemPost("rd"), nleitores' = nleitores + 1, i' = i + 1,
             UNCHANGED <<leitores_espera, pc>>
      PROVE  Accounts' /\ nleitores' \in Nat /\ leitores_espera' \in Nat /\ i' \in Nat
  <2>1. pc' = [pc EXCEPT ![active] = "post"]
      BY <1>1, <1>5
  <2>2. /\ Admitted("wr")' = Admitted("wr") /\ Waiting("wr")' = Waiting("wr")
        /\ counter'["wr"] = counter["wr"]
        /\ Cardinality(Admitted("rd")') + counter'["rd"]
             = Cardinality(Admitted("rd")) + counter["rd"] + 1
        /\ Cardinality(Waiting("rd")') - counter'["rd"]
             = Cardinality(Waiting("rd")) - counter["rd"] - 1
    <3>1. Admitted("rd") \ {active} = Admitted("rd") /\ Admitted("wr") \ {active} = Admitted("wr")
        BY <1>3
    <3>2. QED
        BY <1>1, <1>5, <2>1, <3>1, SemPostGroups DEF Kinds
  <2>3. counter'["rd"] \in Nat /\ Cardinality(Admitted("rd")') \in Nat
        /\ Cardinality(Waiting("rd")') \in Nat
    <3>1. counter'["rd"] \in Nat
        BY <1>5, SemPostEffect DEF Placement, Kinds
    <3>2. Admitted("rd")' \subseteq Threads /\ Waiting("rd")' \subseteq Threads
        BY DEF Admitted, Waiting
    <3>3. QED
        BY <3>1, <3>2, ThreadsAssumption, FS_Subset, FS_CardinalityType
  <2>4. leitores_espera' = leitores_espera
      BY <1>5
  <2>5. Counts'
      BY <1>1, <1>5, <2>2, <2>3, <2>4, CountedNat DEF Counts
  <2>6. ClientInv' /\ LoopInv' /\ AdmitInv' /\ WakeInv'
      BY <1>1, <1>2, <1>4, <1>5, <2>4, CountedNat
      DEF ClientInv, LoopInv, AdmitInv, WakeInv, Accounts
  <2>7. QED
      BY <1>1, <1>5, <2>4, <2>5, <2>6, CountedNat DEF Accounts
<1>6. ASSUME i >= leitores_espera, leitores_espera' = leitores_espera - i, i' = 0,
             Goto(active, "undone"), UNCHANGED <<sched, sems, nleitores>>
      PROVE  Accounts' /\ nleitores' \in Nat /\ leitores_espera' \in Nat /\ i' \in Nat
  <2>1. /\ pc' = [pc EXCEPT ![active] = "undone"] /\ semq' = semq /\ counter' = counter
        /\ nleitores' = nleitores /\ leitores_espera' = 0
      BY <1>1, <1>2, <1>6, CountedNat DEF Goto, sems
  <2>2. /\ Admitted("wr")' = Admitted("wr") /\ Admitted("rd")' = Admitted("rd")
        /\ Waiting("wr")' = Waiting("wr") /\ Waiting("rd")' = Waiting("rd")
      BY <1>1, <2>1 DEF Admitted, Waiting
  <2>3. Counts'
      BY <1>1, <1>2, <1>6, <2>1, <2>2, CountedNat DEF Counts
  <2>4. ClientInv' /\ LoopInv' /\ AdmitInv' /\ WakeInv'
      BY <1>1, <1>2, <1>4, <1>6, <2>1, CountedNat
      DEF ClientInv, LoopInv, AdmitInv, WakeInv, Accounts
  <2>5. QED
      BY <1>1, <1>6, <2>1, <2>3, <2>4, CountedNat DEF Accounts
<1>7. QED
    BY <1>5, <1>6 DEF PostReaders

(* A reader that leaves: the last one lets the first waiting writer in. *)
LEMMA ReaderUnlockAccounts ==
    ASSUME Placement, Accounts, ReaderUnlock(active)
    PROVE  /\ Accounts' /\ nleitores' \in Nat
           /\ em_escrita' \in {0, 1} /\ escritores_espera' \in Nat
<1>1. /\ Counts /\ TypeOK /\ pc[active] = "untest" /\ em_escrita = 0
      /\ nleitores' = nleitores - 1 /\ leitores_espera' = leitores_espera /\ i' = i
      /\ pc' = [pc EXCEPT ![active] = "undone"]
    BY DEF Accounts, Placement, ReaderUnlock, Goto
<1>2. op' = op /\ active \in Threads /\ pc \in [Threads -> PCs]
    BY DEF ReaderUnlock, Placement, TypeOK
<1>3. /\ op[active] = "rd" /\ nleitores > 0
      /\ active \in Admitted("rd") /\ active \notin Admitted("wr")
    BY <1>1, LeavingClient, ActiveGroup DEF Kinds
<1>4. Cardinality(Admitted("rd") \ {active}) = Cardinality(Admitted("rd")) - 1
    BY <1>3, CountedFinite, CardinalityStep
<1>5. \A t \in Threads : pc[t] # "post"
    BY <1>1, OnlyPoster DEF Critical
<1>6. i = 0
    BY <1>5 DEF Accounts, LoopInv
<1>7. /\ Counts /\ TypeOK /\ em_escrita = 0
      /\ nleitores' = nleitores - 1 /\ leitores_espera' = leitores_espera /\ i' = i
    BY <1>1
<1>8. CASE LastReaderHands
  <2>1. /\ SemPost("wr") /\ em_escrita' = 1 /\ escritores_espera' = escritores_espera - 1
        /\ nleitores = 1 /\ escritores_espera > 0
      BY <1>8 DEF ReaderUnlock, HandToWriter, LastReaderHands
  <2>2. /\ Admitted("rd")' = Admitted("rd") \ {active} /\ Waiting("rd")' = Waiting("rd")
        /\ counter'["rd"] = counter["rd"]
        /\ Cardinality(Admitted("wr")') + counter'["wr"]
             = Cardinality(Admitted("wr")) + counter["wr"] + 1
        /\ Cardinality(Waiting("wr")') - counter'["wr"]
             = Cardinality(Waiting("wr")) - counter["wr"] - 1
    <3>1. Admitted("wr") \ {active} = Admitted("wr")
        BY <1>3
    <3>2. QED
        BY <1>1, <1>2, <2>1, <3>1, SemPostGroups DEF Kinds
  <2>3. counter'["wr"] \in Nat /\ Cardinality(Admitted("wr")') \in Nat
        /\ Cardinality(Waiting("wr")') \in Nat
    <3>1. counter'["wr"] \in Nat
        BY <2>1, SemPostEffect DEF Placement, Kinds
    <3>2. Admitted("wr")' \subseteq Threads /\ Waiting("wr")' \subseteq Threads
        BY DEF Admitted, Waiting
    <3>3. QED
        BY <3>1, <3>2, ThreadsAssumption, FS_Subset, FS_CardinalityType
  <2>4. Cardinality(Admitted("rd")') = Cardinality(Admitted("rd")) - 1
      BY <1>4, <2>2
  <2>5. Counts'
    <3>1. (nleitores = Cardinality(Admitted("rd")) + counter["rd"])'
        BY <1>7, <2>1, <2>2, <2>3, <2>4, CountedNat DEF Counts
    <3>2. (em_escrita = Cardinality(Admitted("wr")) + counter["wr"])'
      <4>1. Cardinality(Admitted("wr")) + counter["wr"] = 0
          BY <1>7 DEF Counts
      <4>2. Cardinality(Admitted("wr")') + counter'["wr"] = 0 + 1
          BY <2>2, <4>1
      <4>3. em_escrita' = 1
          BY <2>1
      <4>4. QED
          BY <4>2, <4>3
    <3>3. (leitores_espera - i + counter["rd"] = Cardinality(Waiting("rd")))'
        BY <1>7, <2>1, <2>2, <2>3, <2>4, CountedNat DEF Counts
    <3>4. (escritores_espera + counter["wr"] = Cardinality(Waiting("wr")))'
      <4>1. /\ escritores_espera + counter["wr"] = Cardinality(Waiting("wr"))
            /\ escritores_espera \in Nat /\ counter["wr"] \in Nat
            /\ Cardinality(Waiting("wr")) \in Nat
          BY <1>7, CountedNat DEF Counts
      <4>2. escritores_espera' = escritores_espera - 1
          BY <2>1
      <4>3. Cardinality(Waiting("wr")') - counter'["wr"]
              = Cardinality(Waiting("wr")) - counter["wr"] - 1
          BY <2>2
      <4>4. QED
          BY <2>3, <4>1, <4>2, <4>3
    <3>5. QED
        BY <3>1, <3>2, <3>3, <3>4 DEF Counts
  <2>6. ClientInv' /\ LoopInv' /\ AdmitInv' /\ WakeInv'
      BY <1>1, <1>2, <1>3, <1>5, <1>6, <2>1
      DEF ClientInv, LoopInv, AdmitInv, WakeInv, Accounts
  <2>7. QED
      BY <1>1, <2>1, <2>5, <2>6, CountedNat DEF Accounts
<1>9. CASE ~LastReaderHands
  <2>1. /\ semq' = semq /\ counter' = counter
        /\ em_escrita' = em_escrita /\ escritores_espera' = escritores_espera
      BY <1>9 DEF ReaderUnlock, sems
  <2>2. /\ Admitted("rd")' = Admitted("rd") \ {active} /\ Admitted("wr")' = Admitted("wr")
        /\ Waiting("wr")' = Waiting("wr") /\ Waiting("rd")' = Waiting("rd")
      BY <1>1, <1>2, <1>3, <2>1 DEF Admitted, Waiting
  <2>3. Cardinality(Admitted("rd")') = Cardinality(Admitted("rd")) - 1
      BY <1>4, <2>2
  <2>4. Counts'
    <3>1. (nleitores = Cardinality(Admitted("rd")) + counter["rd"])'
        BY <1>7, <2>1, <2>2, <2>3, CountedNat DEF Counts
    <3>2. (em_escrita = Cardinality(Admitted("wr")) + counter["wr"])'
        BY <1>7, <2>1, <2>2, <2>3, CountedNat DEF Counts
    <3>3. (leitores_espera - i + counter["rd"] = Cardinality(Waiting("rd")))'
        BY <1>7, <2>1, <2>2, <2>3, CountedNat DEF Counts
    <3>4. (escritores_espera + counter["wr"] = Cardinality(Waiting("wr")))'
        BY <1>7, <2>1, <2>2, <2>3, CountedNat DEF Counts
    <3>5. QED
        BY <3>1, <3>2, <3>3, <3>4 DEF Counts
  <2>5. ClientInv' /\ LoopInv' /\ AdmitInv' /\ WakeInv'
      BY <1>1, <1>2, <1>3, <1>5, <1>6, <1>9, <2>1, CountedNat
      DEF ClientInv, LoopInv, AdmitInv, WakeInv, Accounts, LastReaderHands
  <2>6. QED
      BY <1>1, <1>3, <2>1, <2>4, <2>5, CountedNat DEF Accounts
<1>10. QED
    BY <1>8, <1>9

-----------------------------------------------------------------------------
(* The theorems *)

(* Every step of the library keeps the inductive invariant. *)
LEMMA StepKeeps ==
    ASSUME IInv, ~(TimeSlice /\ Requeue), Next
    PROVE  IInv'
<1>1. /\ Placement /\ Accounts /\ TypeOK
      /\ active \in Threads /\ pc \in [Threads -> PCs] /\ op \in [Threads -> Kinds \cup {"none"}]
    BY DEF IInv, Placement, Accounts, TypeOK
<1>2. ASSUME NEW t \in PCs, pc' = [pc EXCEPT ![active] = t] PROVE pc' \in [Threads -> PCs]
    BY <1>1, <1>2
<1>3. ASSUME Placement', Accounts' PROVE IInv'
    BY <1>3 DEF IInv, Placement, Accounts
<1>4. CASE Tick
  <2>1. /\ Rotate /\ UNCHANGED <<mutex, sems, op, pc>> /\ UNCHANGED <<state, i>> /\ ~Requeue
      BY <1>4 DEF Tick
  <2>2. active' \in Threads /\ exe' \in Seq(Threads) /\ SchedInv' /\ QueueInv' /\ MutexInv'
      BY <1>1, <2>1, RotationKeeps
  <2>3. Placement'
      BY <1>1, <2>1, <2>2 DEF Placement, TypeOK, mutex, sems, state
  <2>4. Accounts'
      BY <1>1, <2>1
      DEF Accounts, ClientInv, Counts, LoopInv, AdmitInv, WakeInv, Admitted, Waiting, sems, state
  <2>5. QED
      BY <1>3, <2>3, <2>4
<1>5. CASE Yield(active)
  <2>1. /\ Rotate /\ UNCHANGED <<mutex, sems, op, pc>> /\ UNCHANGED <<state, i>>
        /\ pc[active] \in {"out", "in"}
      BY <1>5 DEF Yield
  <2>2. thr # active
      BY <1>1, <2>1 DEF Placement, MutexInv, Critical
  <2>3. active' \in Threads /\ exe' \in Seq(Threads) /\ SchedInv' /\ QueueInv' /\ MutexInv'
      BY <1>1, <2>1, <2>2, RotationKeeps
  <2>4. Placement'
      BY <1>1, <2>1, <2>3 DEF Placement, TypeOK, mutex, sems, state
  <2>5. Accounts'
      BY <1>1, <2>1
      DEF Accounts, ClientInv, Counts, LoopInv, AdmitInv, WakeInv, Admitted, Waiting, sems, state
  <2>6. QED
      BY <1>3, <2>4, <2>5
<1>6. CASE Call(active)
  <2>1. PICK k \in Kinds : op' = [op EXCEPT ![active] = k]
      BY <1>6 DEF Call
  <2>2. /\ pc[active] = "out" /\ pc' = [pc EXCEPT ![active] = "lock"]
        /\ UNCHANGED <<sched, mutex, sems>> /\ UNCHANGED <<state, i>>
      BY <1>6 DEF Call, Goto
  <2>3. op' \in [Threads -> Kinds \cup {"none"}] /\ op'[active] \in Kinds
        /\ \A t \in Threads \ {active} : op'[t] = op[t]
      BY <1>1, <2>1
  <2>4. SchedInv' /\ QueueInv' /\ MutexInv'
      BY <1>1, <2>2, <2>3, OwnStepKeeps DEF PCs, Critical
  <2>5. Placement'
      BY <1>1, <2>2, <2>3, <2>4 DEF Placement, TypeOK, sched, mutex, sems, state, PCs
  <2>6. Accounts'
      BY <1>1, <2>2, <2>3, QuietKeeps DEF PCs
  <2>7. QED
      BY <1>3, <2>5, <2>6
<1>7. CASE Release(active)
  <2>1. /\ pc[active] = "in" /\ pc' = [pc EXCEPT ![active] = "unlock"] /\ op' = op
        /\ UNCHANGED <<sched, mutex, sems>> /\ UNCHANGED <<state, i>>
      BY <1>7 DEF Release, Goto
  <2>2. SchedInv' /\ QueueInv' /\ MutexInv'
      BY <1>1, <2>1, OwnStepKeeps DEF PCs, Critical
  <2>3. Placement'
      BY <1>1, <2>1, <2>2 DEF Placement, TypeOK, sched, mutex, sems, state, PCs
  <2>4. Accounts'
      BY <1>1, <2>1, QuietKeeps DEF PCs
  <2>5. QED
      BY <1>3, <2>3, <2>4
<1>8. ASSUME NEW next \in {"test", "done", "untest"},
             <<pc[active], next>> \in {<<"lock", "test">>, <<"relock", "done">>,
                                       <<"unlock", "untest">>},
             MutexLock(active, next), UNCHANGED <<sems, state, i, op>>
      PROVE  IInv'
  <2>1. /\ pc[active] \in {"lock", "relock", "unlock"} /\ pc' = [pc EXCEPT ![active] = next]
        /\ next \in PCs /\ op' = op /\ UNCHANGED <<sems, op>> /\ UNCHANGED <<sems, state, i>>
      BY <1>8 DEF MutexLock, Goto, PCs
  <2>2. /\ active' \in Threads /\ exe' \in Seq(Threads)
        /\ thr' \in Threads \cup {NoThread} /\ lockq' \in Seq(Threads)
        /\ SchedInv' /\ QueueInv' /\ MutexInv'
      BY <1>1, <1>8, <2>1, MutexLockKeeps
  <2>3. Placement'
      BY <1>1, <1>2, <2>1, <2>2 DEF Placement, TypeOK, sems, state
  <2>4. Accounts'
      BY <1>1, <1>8, <2>1, QuietKeeps
  <2>5. QED
      BY <1>3, <2>3, <2>4
<1>9. ASSUME NEW next \in {"wait", "in", "out"},
             <<pc[active], next>> \in {<<"park", "wait">>, <<"done", "in">>, <<"undone", "out">>},
             MutexUnlock(active, next), UNCHANGED <<sems, state, i>>,
             op' = IF next = "out" THEN [op EXCEPT ![active] = "none"] ELSE op
      PROVE  IInv'
  <2>1. /\ pc[active] \in {"park", "done", "undone"} /\ pc' = [pc EXCEPT ![active] = next]
        /\ next \in PCs /\ UNCHANGED sems /\ UNCHANGED <<sems, state, i>>
        /\ \A t \in Threads \ {active} : op'[t] = op[t]
        /\ op' \in [Threads -> Kinds \cup {"none"}]
        /\ IF next = "out" THEN op'[active] = "none" ELSE op'[active] = op[active]
      BY <1>1, <1>9 DEF MutexUnlock, Goto, PCs
  <2>2. /\ active' = active /\ exe' \in Seq(Threads)
        /\ thr' \in Threads \cup {NoThread} /\ lockq' \in Seq(Threads)
        /\ SchedInv' /\ QueueInv' /\ MutexInv'
      BY <1>1, <1>9, <2>1, MutexUnlockKeeps
  <2>3. Placement'
      BY <1>1, <1>2, <2>1, <2>2 DEF Placement, TypeOK, sems, state
  <2>4. Accounts'
      BY <1>1, <1>9, <2>1, QuietKeeps
  <2>5. QED
      BY <1>3, <2>3, <2>4
<1>10. CASE Wait(active)
  <2>1. /\ pc[active] = "wait" /\ SemWait(active, op[active], "relock")
        /\ UNCHANGED <<mutex, op>> /\ UNCHANGED <<state, i, op>>
        /\ pc' = [pc EXCEPT ![active] = "relock"]
      BY <1>10 DEF Wait, SemWait, Goto
  <2>2. op[active] \in Kinds /\ Accounts'
      BY <1>1, <2>1, WaitAccounts
  <2>3. /\ active' \in Threads /\ exe' \in Seq(Threads)
        /\ counter' \in [Kinds -> Nat] /\ semq' \in [Kinds -> Seq(Threads)]
        /\ SchedInv' /\ QueueInv' /\ MutexInv'
      BY <1>1, <2>1, <2>2, SemWaitKeeps
  <2>4. Placement'
      BY <1>1, <1>2, <2>1, <2>3 DEF Placement, TypeOK, mutex, state, PCs
  <2>5. QED
      BY <1>3, <2>2, <2>4
<1>11. CASE RdTest(active)
  <2>1. /\ pc[active] = "test" /\ op' = op
        /\ UNCHANGED <<sched, mutex, sems>> /\ UNCHANGED <<em_escrita, escritores_espera, i>>
      BY <1>11 DEF RdTest
  <2>2. PICK next \in {"park", "done"} : pc' = [pc EXCEPT ![active] = next]
      BY <1>11 DEF RdTest, Goto
  <2>3. SchedInv' /\ QueueInv' /\ MutexInv'
      BY <1>1, <2>1, <2>2, OwnStepKeeps DEF PCs, Critical
  <2>4. Accounts' /\ nleitores' \in Nat /\ leitores_espera' \in Nat
      BY <1>1, <1>11, RdTestAccounts
  <2>5. Placement'
      BY <1>1, <2>1, <2>2, <2>3, <2>4 DEF Placement, TypeOK, sched, mutex, sems, PCs
  <2>6. QED
      BY <1>3, <2>4, <2>5
<1>12. CASE WrTest(active)
  <2>1. /\ pc[active] = "test" /\ op' = op
        /\ UNCHANGED <<sched, mutex, sems>> /\ UNCHANGED <<nleitores, leitores_espera, i>>
      BY <1>12 DEF WrTest
  <2>2. PICK next \in {"park", "done"} : pc' = [pc EXCEPT ![active] = next]
      BY <1>12 DEF WrTest, Goto
  <2>3. SchedInv' /\ QueueInv' /\ MutexInv'
      BY <1>1, <2>1, <2>2, OwnStepKeeps DEF PCs, Critical
  <2>4. Accounts' /\ em_escrita' \in {0, 1} /\ escritores_espera' \in Nat
      BY <1>1, <1>12, WrTestAccounts
  <2>5. Placement'
      BY <1>1, <2>1, <2>2, <2>3, <2>4 DEF Placement, TypeOK, sched, mutex, sems, PCs
  <2>6. QED
      BY <1>3, <2>4, <2>5
<1>13. ASSUME pc[active] \in {"untest", "post"}, UNCHANGED <<mutex, op>>,
              NEW next \in {"post", "undone"}, pc' = [pc EXCEPT ![active] = next],
              UNCHANGED <<sched, sems>> \/ SemPost("rd") \/ SemPost("wr")
       PROVE  /\ active' \in Threads /\ exe' \in Seq(Threads)
              /\ counter' \in [Kinds -> Nat] /\ semq' \in [Kinds -> Seq(Threads)]
              /\ thr' \in Threads \cup {NoThread} /\ lockq' \in Seq(Threads)
              /\ op' \in [Threads -> Kinds \cup {"none"}] /\ pc' \in [Threads -> PCs]
              /\ SchedInv' /\ QueueInv' /\ MutexInv'
  <2>1. /\ next \in PCs /\ (next \in Critical <=> pc[active] \in Critical)
        /\ thr' = thr /\ lockq' = lockq /\ op' = op
      BY <1>13 DEF PCs, Critical, mutex
  <2>2. CASE UNCHANGED <<sched, sems>>
    <3>1. SchedInv' /\ QueueInv' /\ MutexInv'
        BY <1>1, <1>13, <2>1, <2>2, OwnStepKeeps
    <3>2. QED
        BY <1>1, <1>2, <1>13, <2>1, <2>2, <3>1 DEF TypeOK, sched, sems
  <2>3. ASSUME NEW k \in Kinds, SemPost(k)
        PROVE  /\ active' = active /\ exe' \in Seq(Threads)
               /\ counter' \in [Kinds -> Nat] /\ semq' \in [Kinds -> Seq(Threads)]
               /\ SchedInv' /\ QueueInv' /\ MutexInv'
      BY <1>1, <1>13, <2>1, <2>3, SemPostKeeps
  <2>4. CASE SemPost("rd") \/ SemPost("wr")
      BY <1>1, <1>2, <1>13, <2>1, <2>3, <2>4 DEF TypeOK, Kinds
  <2>5. QED
      BY <1>13, <2>2, <2>4
<1>14. CASE WriterUnlock(active)
  <2>1. /\ pc[active] = "untest" /\ UNCHANGED <<mutex, op>>
        /\ UNCHANGED <<nleitores, leitores_espera>>
        /\ UNCHANGED <<sched, sems>> \/ SemPost("rd") \/ SemPost("wr")
      BY <1>14 DEF WriterUnlock, HandToWriter
  <2>2. PICK next \in {"post", "undone"} : pc' = [pc EXCEPT ![active] = next]
      BY <1>14 DEF WriterUnlock, Goto
  <2>3. Accounts' /\ em_escrita' \in {0, 1} /\ escritores_espera' \in Nat /\ i' \in Nat
      BY <1>1, <1>14, WriterUnlockAccounts
  <2>4. Placement'
      BY <1>1, <1>13, <2>1, <2>2, <2>3 DEF Placement, TypeOK
  <2>5. QED
      BY <1>3, <2>3, <2>4
<1>15. CASE PostReaders(active)
  <2>1. /\ pc[active] = "post" /\ UNCHANGED <<mutex, op>>
        /\ UNCHANGED <<em_escrita, escritores_espera>>
        /\ UNCHANGED <<sched, sems>> \/ SemPost("rd") \/ SemPost("wr")
      BY <1>15 DEF PostReaders
  <2>2. pc' = [pc EXCEPT ![active] = "post"] \/ pc' = [pc EXCEPT ![active] = "undone"]
      BY <1>1, <1>15 DEF PostReaders, Goto
  <2>3. PICK next \in {"post", "undone"} : pc' = [pc EXCEPT ![active] = next]
      BY <2>2
  <2>4. Accounts' /\ nleitores' \in Nat /\ leitores_espera' \in Nat /\ i' \in Nat
      BY <1>1, <1>15, PostReadersAccounts
  <2>5. Placement'
      BY <1>1, <1>13, <2>1, <2>3, <2>4 DEF Placement, TypeOK
  <2>6. QED
      BY <1>3, <2>4, <2>5
<1>16. CASE ReaderUnlock(active)
  <2>1. /\ pc[active] = "untest" /\ UNCHANGED <<mutex, op>> /\ UNCHANGED <<leitores_espera, i>>
        /\ UNCHANGED <<sched, sems>> \/ SemPost("rd") \/ SemPost("wr")
      BY <1>16 DEF ReaderUnlock, HandToWriter
  <2>2. PICK next \in {"post", "undone"} : pc' = [pc EXCEPT ![active] = next]
      BY <1>16 DEF ReaderUnlock, Goto
  <2>3. /\ Accounts' /\ nleitores' \in Nat
        /\ em_escrita' \in {0, 1} /\ escritores_espera' \in Nat
      BY <1>1, <1>16, ReaderUnlockAccounts
  <2>4. Placement'
      BY <1>1, <1>13, <2>1, <2>2, <2>3 DEF Placement, TypeOK
  <2>5. QED
      BY <1>3, <2>3, <2>4
<1>17. CASE Lock(active) \/ Relock(active) \/ Unlock(active)
    BY <1>8, <1>17 DEF Lock, Relock, Unlock
<1>18. CASE Park(active) \/ Done(active) \/ Undone(active)
    BY <1>9, <1>18 DEF Park, Done, Undone
<1>19. QED
    BY <1>4, <1>5, <1>6, <1>7, <1>10, <1>11, <1>12, <1>14, <1>15, <1>16, <1>17, <1>18
    DEF Next, Step, Inside

(* The library starts in a state of the inductive invariant: all threads are
   runnable and nobody has asked for the lock. *)
LEMMA InitKeeps ==
    ASSUME Init
    PROVE  IInv
<1>1. /\ active \in Threads /\ exe \in Orders(Threads \ {active})
      /\ thr = NoThread /\ lockq = << >>
      /\ counter = [k \in Kinds |-> 0] /\ semq = [k \in Kinds |-> << >>]
      /\ nleitores = 0 /\ em_escrita = 0
      /\ leitores_espera = 0 /\ escritores_espera = 0 /\ i = 0
      /\ op = [t \in Threads |-> "none"] /\ pc = [t \in Threads |-> "out"]
    BY DEF Init, MutexInit, SemInit
<1> DEFINE S == Threads \ {active}
           n == Cardinality(S)
<1>2. IsFiniteSet(S) /\ n \in Nat
    BY ThreadsAssumption, FS_Subset, FS_CardinalityType
<1>3. exe \in [1 .. n -> S] /\ Elements(exe) = S
    BY <1>1 DEF Orders
<1>4. exe \in Seq(Threads) /\ Once(exe)
  <2>1. exe \in Seq(Threads)
    <3>1. exe \in [1 .. n -> Threads]
        BY <1>3
    <3>2. QED
        BY <1>2, <3>1, SeqDef
  <2>2. exe \in Surjection(1 .. n, S)
      BY <1>3 DEF Elements, Surjection
  <2>3. IsFiniteSet(1 .. n) /\ Cardinality(1 .. n) = n
      BY <1>2, FS_Interval
  <2>4. exe \in Injection(1 .. n, S)
      BY <2>2, <2>3, FS_SurjSameCardinalityImpliesInj
  <2>5. QED
      BY <1>3, <2>1, <2>4 DEF Injection, IsInjective, Once
<1> HIDE DEF S, n
<1>5. TypeOK
    BY <1>1, <1>4 DEF TypeOK, PCs, Kinds
<1>6. SchedInv /\ QueueInv /\ MutexInv
    BY <1>1, <1>3, <1>4, ThreadsAssumption
    DEF SchedInv, QueueInv, MutexInv, Asleep, Elements, Once, Critical, Kinds, S
<1>7. Counts
  <2>1. /\ Admitted("rd") = {} /\ Admitted("wr") = {}
        /\ Waiting("rd") = {} /\ Waiting("wr") = {}
      BY <1>1 DEF Admitted, Waiting
  <2>2. Cardinality({}) = 0
      BY FS_EmptySet
  <2>3. counter["rd"] = 0 /\ counter["wr"] = 0
      BY <1>1 DEF Kinds
  <2>4. /\ Cardinality(Admitted("rd")) = 0 /\ Cardinality(Admitted("wr")) = 0
        /\ Cardinality(Waiting("rd")) = 0 /\ Cardinality(Waiting("wr")) = 0
      BY <2>1, <2>2
  <2>5. /\ nleitores = 0 /\ em_escrita = 0
        /\ leitores_espera = 0 /\ escritores_espera = 0 /\ i = 0
      BY <1>1
  <2>6. QED
      BY <2>3, <2>4, <2>5 DEF Counts
<1>8. ClientInv /\ LoopInv /\ AdmitInv /\ WakeInv
    BY <1>1 DEF ClientInv, LoopInv, AdmitInv, WakeInv
<1>9. QED
    BY <1>5, <1>6, <1>7, <1>8 DEF IInv

(* Between any two steps of the library the inductive invariant holds, whatever
   the number of threads, with time slices or with the requeue of line 491 but
   not with both. *)
THEOREM Invariance ==
    ASSUME ~(TimeSlice /\ Requeue)
    PROVE  SafetySpec => []IInv
<1>1. Init => IInv
    BY InitKeeps
<1>2. IInv /\ [Next]_vars => IInv'
  <2>1. IInv /\ Next => IInv'
      BY StepKeeps
  <2>2. IInv /\ UNCHANGED vars => IInv'
    <3>1. SUFFICES ASSUME IInv, UNCHANGED vars PROVE IInv'
        OBVIOUS
    <3>2. /\ UNCHANGED <<active, exe, thr, lockq, counter, semq, i, op, pc>>
          /\ UNCHANGED <<nleitores, em_escrita, leitores_espera, escritores_espera>>
        BY <3>1 DEF vars, sched, mutex, sems, state
    <3>3. TypeOK' /\ SchedInv' /\ QueueInv' /\ MutexInv' /\ ClientInv'
        BY <3>1, <3>2 DEF IInv, TypeOK, SchedInv, QueueInv, MutexInv, ClientInv, Asleep
    <3>4. Counts'
        BY <3>1, <3>2 DEF IInv, Counts, Admitted, Waiting
    <3>5. LoopInv' /\ AdmitInv' /\ WakeInv'
        BY <3>1, <3>2 DEF IInv, LoopInv, AdmitInv, WakeInv
    <3>6. QED
        BY <3>3, <3>4, <3>5 DEF IInv
  <2>3. QED
      BY <2>1, <2>2
<1>3. QED
    BY <1>1, <1>2, PTL DEF SafetySpec

(* The variables keep their types: in particular em_escrita stays 0 or 1 and no
   counter is ever taken below zero. *)
THEOREM TypeCorrect ==
    ASSUME ~(TimeSlice /\ Requeue)
    PROVE  SafetySpec => []TypeOK
<1>1. IInv => TypeOK
    BY DEF IInv
<1>2. QED
    BY <1>1, Invariance, PTL

(* The four counters of the lock mean what their names say. *)
THEOREM CountsCorrect ==
    ASSUME ~(TimeSlice /\ Requeue)
    PROVE  SafetySpec => []Counts
<1>1. IInv => Counts
    BY DEF IInv
<1>2. QED
    BY <1>1, Invariance, PTL

(* Who holds the lock was let in, so a writer that holds it is all that
   em_escrita counts, and em_escrita keeps the readers out. *)
LEMMA HoldersExclude == IInv => Exclusion
<1> SUFFICES ASSUME IInv, NEW w \in Holding("wr")
             PROVE  Holding("wr") = {w} /\ Holding("rd") = {}
    BY DEF Exclusion
<1>1. Holding("wr") \subseteq Admitted("wr") /\ Holding("rd") \subseteq Admitted("rd")
    BY DEF Holding, Admitted
<1>2. /\ TypeOK /\ Counts /\ (em_escrita = 1 => nleitores = 0)
    BY DEF IInv, AdmitInv
<1>3. /\ nleitores = Cardinality(Admitted("rd")) + counter["rd"]
      /\ em_escrita = Cardinality(Admitted("wr")) + counter["wr"]
      /\ counter["rd"] \in Nat /\ counter["wr"] \in Nat /\ em_escrita \in {0, 1}
      /\ Cardinality(Admitted("rd")) \in Nat
    BY <1>2, CountedNat DEF Counts, TypeOK
<1>4. /\ Cardinality(Admitted("wr") \ {w}) = Cardinality(Admitted("wr")) - 1
      /\ Cardinality(Admitted("wr") \ {w}) \in Nat /\ Cardinality(Admitted("wr")) \in Nat
  <2>1. IsFiniteSet(Admitted("wr") \ {w})
      BY CountedFinite, FS_Subset
  <2>2. QED
      BY <1>1, <2>1, CountedFinite, CardinalityStep
<1>5. Cardinality(Admitted("wr") \ {w}) = 0 /\ em_escrita = 1
    BY <1>3, <1>4
<1>6. Cardinality(Admitted("rd")) = 0
    BY <1>2, <1>3, <1>5
<1>7. Admitted("wr") \ {w} = {} /\ Admitted("rd") = {}
  <2>1. IsFiniteSet(Admitted("wr") \ {w})
      BY CountedFinite, FS_Subset
  <2>2. QED
      BY <1>5, <1>6, <2>1, CountedFinite, FS_EmptySet
<1>8. QED
    BY <1>1, <1>7

(* A writer that is past wrlock is the only client past rdlock or wrlock. *)
THEOREM ExclusionCorrect ==
    ASSUME ~(TimeSlice /\ Requeue)
    PROVE  SafetySpec => []Exclusion
<1>1. QED
    BY HoldersExclude, Invariance, PTL

(* While nobody is inside the mutex, no writer is in its post loop, so waiting
   readers have a writer in or ahead of them, and waiting writers a client in. *)
THEOREM NoLostWakeupCorrect ==
    ASSUME ~(TimeSlice /\ Requeue)
    PROVE  SafetySpec => []NoLostWakeup
<1>1. IInv => NoLostWakeup
  <2>1. SUFFICES ASSUME IInv, thr = NoThread PROVE \A t \in Threads : pc[t] # "post"
      BY DEF NoLostWakeup, IInv, WakeInv
  <2>2. SUFFICES ASSUME NEW t \in Threads, pc[t] = "post" PROVE FALSE
      BY <2>1
  <2>3. lockq = << >> /\ t \notin Elements(lockq)
      BY <2>1 DEF IInv, MutexInv, Elements
  <2>4. thr = t
      BY <2>1, <2>2, <2>3 DEF IInv, MutexInv, Critical
  <2>5. QED
      BY <2>1, <2>4, ThreadsAssumption
<1>2. QED
    BY <1>1, Invariance, PTL

(* The thread that executes between mutex_lock and mutex_unlock owns the mutex. *)
THEOREM MutexExclusionCorrect ==
    ASSUME ~(TimeSlice /\ Requeue)
    PROVE  SafetySpec => []MutexExclusion
<1>1. IInv => MutexExclusion
    BY DEF IInv, TypeOK, MutexInv, SchedInv, Asleep, MutexExclusion, Critical
<1>2. QED
    BY <1>1, Invariance, PTL

(* Without time slices nobody ever finds the mutex taken, because a thread never
   gives way inside the lock's operations: line 491 is never reached. *)
THEOREM NeverContendedCorrect ==
    ASSUME Requeue, ~TimeSlice
    PROVE  SafetySpec => []NeverContended
<1>1. IInv => NeverContended
    BY DEF IInv, MutexInv, NeverContended
<1>2. ~(TimeSlice /\ Requeue)
    OBVIOUS
<1>3. QED
    BY <1>1, <1>2, Invariance, PTL

-----------------------------------------------------------------------------
(* The run queue *)

(* The mutex is never found taken with an empty run queue: its owner would be
   awake and not running. *)
LEMMA OwnerIsRunnable ==
    ASSUME Placement, exe = << >>, pc[active] \notin Critical
    PROVE  thr = NoThread
<1>1. SUFFICES ASSUME thr \in Threads PROVE FALSE
    BY DEF Placement, TypeOK
<1>2. pc[thr] \in Critical /\ thr \notin Elements(lockq) /\ thr # active
    BY <1>1 DEF Placement, MutexInv
<1>3. thr \in Elements(semq["rd"]) \cup Elements(semq["wr"])
    BY <1>1, <1>2 DEF Placement, SchedInv, Asleep, Elements
<1>4. pc[thr] = "relock"
    BY <1>3 DEF Placement, QueueInv, Kinds
<1>5. QED
    BY <1>2, <1>4 DEF Critical

(* With an empty run queue and the mutex free, everybody but the active thread
   waits for a semaphore. *)
LEMMA OthersWait ==
    ASSUME Placement, exe = << >>, thr = NoThread
    PROVE  \A t \in Threads \ {active} :
               \E k \in Kinds : t \in Elements(semq[k]) /\ pc[t] = "relock" /\ op[t] = k
<1>1. TAKE t \in Threads \ {active}
<1>2. t \in Elements(semq["rd"]) \/ t \in Elements(semq["wr"])
    BY DEF Placement, SchedInv, Asleep, MutexInv, Elements
<1>3. QED
    BY <1>2 DEF Placement, QueueInv, Kinds

(* sem_wait is never called by the last runnable thread with nothing to take:
   the lock would count no client in, and nobody can wait for nobody. *)
LEMMA LastRunnablePasses ==
    ASSUME IInv, exe = << >>, pc[active] = "wait"
    PROVE  counter[op[active]] # 0
<1> DEFINE k == op[active]
<1>1. SUFFICES ASSUME counter[op[active]] = 0 PROVE FALSE
    OBVIOUS
<1>2. /\ Placement /\ Counts /\ TypeOK /\ WakeInv /\ active \in Threads
      /\ op[active] \in Kinds
    BY DEF IInv, Placement, TypeOK, ClientInv, Kinds
<1>3. thr = NoThread
    BY <1>2, OwnerIsRunnable DEF Critical
<1>4. \A t \in Threads \ {active} :
         \E j \in Kinds : t \in Elements(semq[j]) /\ pc[t] = "relock" /\ op[t] = j
    BY <1>2, <1>3, OthersWait
<1>5. /\ Admitted("rd") = {} /\ Admitted("wr") = {}
      /\ \A t \in Threads : pc[t] # "post"
    BY <1>4 DEF Admitted
<1>6. i = 0
    BY <1>5 DEF IInv, LoopInv
<1>7. \A j \in Kinds \ {op[active]} : counter[j] > 0 => Waiting(j) = {}
  <2>1. SUFFICES ASSUME NEW j \in Kinds \ {op[active]}, counter[j] > 0 PROVE Waiting(j) = {}
      OBVIOUS
  <2>2. Elements(semq[j]) = {}
      BY <1>2, <2>1 DEF Placement, QueueInv, Elements
  <2>3. QED
      BY <1>4, <2>1, <2>2 DEF Waiting
<1>8. active \in Waiting(op[active])
    BY <1>2 DEF Waiting
<1>9. Cardinality(Waiting(op[active])) > 0
    BY <1>8, CountedFinite, CardinalityStep
<1>10. Cardinality({}) = 0
    BY FS_EmptySet
<1>11. /\ nleitores = counter["rd"] /\ em_escrita = counter["wr"]
       /\ leitores_espera + counter["rd"] = Cardinality(Waiting("rd"))
       /\ escritores_espera + counter["wr"] = Cardinality(Waiting("wr"))
  <2>1. Cardinality(Admitted("rd")) = 0 /\ Cardinality(Admitted("wr")) = 0
      BY <1>5, <1>10
  <2>2. /\ nleitores \in Nat /\ em_escrita \in Nat /\ leitores_espera \in Nat
        /\ counter["rd"] \in Nat /\ counter["wr"] \in Nat
      BY <1>2, CountedNat
  <2>3. nleitores = counter["rd"] /\ em_escrita = counter["wr"]
      BY <1>2, <2>1, <2>2 DEF Counts
  <2>4. leitores_espera + counter["rd"] = Cardinality(Waiting("rd"))
      BY <1>2, <1>6, <2>2 DEF Counts
  <2>5. escritores_espera + counter["wr"] = Cardinality(Waiting("wr"))
      BY <1>2 DEF Counts
  <2>6. QED
      BY <2>3, <2>4, <2>5
<1>12. /\ leitores_espera > 0 => em_escrita = 1 \/ escritores_espera > 0
       /\ escritores_espera > 0 => em_escrita = 1 \/ nleitores > 0
    BY <1>2, <1>5 DEF WakeInv
<1>13. CASE op[active] = "rd"
  <2>1. counter["wr"] > 0 => Cardinality(Waiting("wr")) = 0
      BY <1>7, <1>10, <1>13 DEF Kinds
  <2>2. counter["rd"] = 0 /\ Cardinality(Waiting("rd")) > 0
      BY <1>1, <1>9, <1>13
  <2>3. QED
      BY <1>2, <1>11, <1>12, <2>1, <2>2, CountedNat
<1>14. CASE op[active] = "wr"
  <2>1. counter["rd"] > 0 => Cardinality(Waiting("rd")) = 0
      BY <1>7, <1>10, <1>14 DEF Kinds
  <2>2. counter["wr"] = 0 /\ Cardinality(Waiting("wr")) > 0
      BY <1>1, <1>9, <1>14
  <2>3. QED
      BY <1>2, <1>11, <1>12, <2>1, <2>2, CountedNat
<1>15. QED
    BY <1>2, <1>13, <1>14 DEF Kinds

(* The active thread never goes to sleep as the last runnable one, so
   queue_remove is never asked for the first of an empty run queue. *)
THEOREM SomebodyToDispatchCorrect ==
    ASSUME ~(TimeSlice /\ Requeue)
    PROVE  SafetySpec => []SomebodyToDispatch
<1>1. IInv => SomebodyToDispatch
  <2>1. SUFFICES ASSUME IInv, exe = << >>
                 PROVE  /\ pc[active] = "wait" => counter[op[active]] # 0
                        /\ pc[active] \in {"lock", "relock", "unlock"} => thr = NoThread
      BY DEF SomebodyToDispatch
  <2>2. Placement
      BY <2>1 DEF IInv, Placement
  <2>3. QED
      BY <2>1, <2>2, LastRunnablePasses, OwnerIsRunnable DEF Critical
<1>2. QED
    BY <1>1, Invariance, PTL

-----------------------------------------------------------------------------
(* The read-write lock implements its contract *)

(* A step either lets a client ask, enter or leave, or is invisible. *)
LEMMA StepImplements ==
    ASSUME IInv, Exclusion', Next
    PROVE  Abstract!Next \/ UNCHANGED LockStatus
<1> DEFINE waiting == {"lock", "test", "park", "wait", "relock", "done"}
<1>1. /\ active \in Threads /\ pc \in [Threads -> PCs]
      /\ op \in [Threads -> Kinds \cup {"none"}]
      /\ \A t \in Threads : pc[t] = "out" <=> op[t] = "none"
    BY DEF IInv, TypeOK, ClientInv
<1>2. ASSUME UNCHANGED <<op, pc>> PROVE UNCHANGED LockStatus
    BY <1>2 DEF LockStatus
<1>3. ASSUME op' = op, NEW a \in waiting, NEW b \in waiting,
             pc[active] = a, pc' = [pc EXCEPT ![active] = b]
      PROVE  UNCHANGED LockStatus
    BY <1>1, <1>3 DEF LockStatus
<1>4. ASSUME op' = op, NEW a \in {"unlock", "untest", "post"},
             NEW b \in {"untest", "post", "undone"},
             pc[active] = a, pc' = [pc EXCEPT ![active] = b]
      PROVE  UNCHANGED LockStatus
    BY <1>1, <1>4 DEF LockStatus
<1>5. CASE Tick \/ Yield(active)
    BY <1>2, <1>5 DEF Tick, Yield
<1>6. CASE Call(active)
  <2>1. PICK k \in Kinds : op' = [op EXCEPT ![active] = k]
      BY <1>6 DEF Call
  <2>2. pc[active] = "out" /\ pc' = [pc EXCEPT ![active] = "lock"]
      BY <1>6 DEF Call, Goto
  <2>3. LockStatus' = [LockStatus EXCEPT ![active] = IF k = "rd" THEN "rwait" ELSE "wwait"]
      BY <1>1, <2>1, <2>2 DEF LockStatus
  <2>4. LockStatus[active] = "out"
      BY <1>1, <2>2 DEF LockStatus
  <2>5. Abstract!AskRead(active) \/ Abstract!AskWrite(active)
      BY <2>3, <2>4 DEF Abstract!AskRead, Abstract!AskWrite, Abstract!Move
  <2>6. QED
      BY <1>1, <2>5 DEF Abstract!Next
<1>7. CASE Release(active)
  <2>1. /\ pc[active] = "in" /\ pc' = [pc EXCEPT ![active] = "unlock"] /\ op' = op
      BY <1>7 DEF Release, Goto
  <2>2. LockStatus' = [LockStatus EXCEPT ![active] = "out"]
      BY <1>1, <2>1 DEF LockStatus
  <2>3. LockStatus[active] \in {"reading", "writing"}
      BY <1>1, <2>1 DEF LockStatus
  <2>4. Abstract!Leave(active)
      BY <2>2, <2>3 DEF Abstract!Leave, Abstract!Move
  <2>5. QED
      BY <1>1, <2>4 DEF Abstract!Next
<1>8. CASE Done(active)
  <2>1. /\ pc[active] = "done" /\ pc' = [pc EXCEPT ![active] = "in"] /\ op' = op
      BY <1>8 DEF Done, MutexUnlock, Goto
  <2>2. op[active] \in Kinds
      BY <1>1, <2>1 DEF Kinds
  <2>3. LockStatus' = [LockStatus EXCEPT ![active] =
                          IF op[active] = "rd" THEN "reading" ELSE "writing"]
      BY <1>1, <2>1 DEF LockStatus
  <2>4. LockStatus[active] = IF op[active] = "rd" THEN "rwait" ELSE "wwait"
      BY <1>1, <2>1 DEF LockStatus
  <2>5. \A w \in Holding("wr")' : Holding("wr")' = {w} /\ Holding("rd")' = {}
      BY DEF Exclusion
  <2>6. Abstract!Writers \subseteq Holding("wr")' \ {active}
      BY <1>1, <2>1 DEF Abstract!Writers, Holding, LockStatus, Kinds
  <2>7. Abstract!Readers \subseteq Holding("rd")' \ {active}
      BY <1>1, <2>1 DEF Abstract!Readers, Holding, LockStatus, Kinds
  <2>8. (op[active] = "rd" => active \in Holding("rd")')
        /\ (op[active] = "wr" => active \in Holding("wr")')
      BY <1>1, <2>1 DEF Holding
  <2>9. CASE op[active] = "rd"
    <3>1. Abstract!Writers = {}
        BY <2>5, <2>6, <2>8, <2>9
    <3>2. Abstract!EnterRead(active)
        BY <2>3, <2>4, <2>9, <3>1 DEF Abstract!EnterRead, Abstract!Move
    <3>3. QED
        BY <1>1, <3>2 DEF Abstract!Next
  <2>10. CASE op[active] = "wr"
    <3>1. Abstract!Writers = {} /\ Abstract!Readers = {}
        BY <2>5, <2>6, <2>7, <2>8, <2>10
    <3>2. Abstract!EnterWrite(active)
        BY <2>3, <2>4, <2>10, <3>1 DEF Abstract!EnterWrite, Abstract!Move
    <3>3. QED
        BY <1>1, <3>2 DEF Abstract!Next
  <2>11. QED
      BY <2>2, <2>9, <2>10 DEF Kinds
<1>9. CASE Undone(active)
  <2>1. /\ pc[active] = "undone" /\ pc' = [pc EXCEPT ![active] = "out"]
        /\ op' = [op EXCEPT ![active] = "none"]
      BY <1>9 DEF Undone, MutexUnlock, Goto
  <2>2. QED
      BY <1>1, <2>1 DEF LockStatus
<1>10. CASE Lock(active) \/ RdTest(active) \/ WrTest(active) \/ Park(active)
            \/ Wait(active) \/ Relock(active)
    BY <1>3, <1>10 DEF Lock, RdTest, WrTest, Park, Wait, Relock,
                      MutexLock, MutexUnlock, SemWait, Goto
<1>11. CASE Unlock(active) \/ WriterUnlock(active) \/ ReaderUnlock(active)
    BY <1>4, <1>11 DEF Unlock, WriterUnlock, ReaderUnlock, MutexLock, Goto
<1>12. CASE PostReaders(active)
    BY <1>2, <1>4, <1>12 DEF PostReaders, Goto
<1>13. QED
    BY <1>5, <1>6, <1>7, <1>8, <1>9, <1>10, <1>11, <1>12 DEF Next, Step, Inside

(* The lock built from the mutex and two semaphores is a read-write lock: every
   behaviour of the library is one of ReadersWriter. *)
THEOREM Implements ==
    ASSUME ~(TimeSlice /\ Requeue)
    PROVE  SafetySpec => IsReadersWriter
<1>1. Init => Abstract!Init
    BY DEF Init, Abstract!Init, LockStatus
<1>2. IInv /\ Exclusion' /\ [Next]_vars => [Abstract!Next]_LockStatus
  <2>1. IInv /\ Exclusion' /\ Next => [Abstract!Next]_LockStatus
      BY StepImplements
  <2>2. UNCHANGED vars => UNCHANGED LockStatus
      BY DEF vars, LockStatus
  <2>3. QED
      BY <2>1, <2>2
<1>3. QED
    BY <1>1, <1>2, Invariance, ExclusionCorrect, PTL DEF SafetySpec, IsReadersWriter, Abstract!SafetySpec

=============================================================================
