------------------------------- MODULE RWLock -------------------------------
(***************************************************************************)
(* The read-write lock of the user-level thread library with the           *)
(* semaphores it is made of: src/sthread_lib/sthread_user.c, lines         *)
(* 523-692.  The mutex m of the lock, and the processor, are in USync.     *)
(*                                                                         *)
(* op[t] says whether t asked for rdlock or for wrlock since it was last   *)
(* out, and names the semaphore it waits on: leitores ("rd") or escritores *)
(* ("wr").  The spin lock l of a semaphore makes each of its operations    *)
(* one step.                                                               *)
(***************************************************************************)
EXTENDS USync

VARIABLES
    counter, semq,      \* the two semaphores: counter and queue_threads
    nleitores, em_escrita, leitores_espera, escritores_espera,
    i,                  \* the loop index of sthread_user_rwlock_unlock
    op                  \* what each thread asked for; "none": nothing

sems  == <<counter, semq>>
state == <<nleitores, em_escrita, leitores_espera, escritores_espera>>
vars  == <<sched, mutex, sems, state, i, op, pc>>

Kinds == {"rd", "wr"}

PCs == {"out", "lock", "test", "park", "wait", "relock", "done", "in",
        "unlock", "untest", "post", "undone"}

TypeOK ==
    /\ active \in Threads
    /\ exe \in Seq(Threads)
    /\ thr \in Threads \cup {NoThread}
    /\ lockq \in Seq(Threads)
    /\ counter \in [Kinds -> Nat]
    /\ semq \in [Kinds -> Seq(Threads)]
    /\ nleitores \in Nat
    /\ em_escrita \in {0, 1}
    /\ leitores_espera \in Nat
    /\ escritores_espera \in Nat
    /\ i \in Nat
    /\ op \in [Threads -> Kinds \cup {"none"}]
    /\ pc \in [Threads -> PCs]

SemInit == counter = [k \in Kinds |-> 0] /\ semq = [k \in Kinds |-> << >>]

Init ==
    /\ active \in Threads
    /\ exe \in Orders(Threads \ {active})
    /\ MutexInit /\ SemInit
    /\ nleitores = 0 /\ em_escrita = 0
    /\ leitores_espera = 0 /\ escritores_espera = 0
    /\ i = 0
    /\ op = [t \in Threads |-> "none"]
    /\ pc = [t \in Threads |-> "out"]

-----------------------------------------------------------------------------
(* Giving way *)

Tick ==
    /\ TimeSlice
    /\ Rotate
    /\ UNCHANGED <<mutex, sems, state, i, op, pc>>

YieldsAnywhere(t) ==    \* mutation: a thread may give way inside the lock's operations
    /\ Rotate
    /\ UNCHANGED <<mutex, sems, state, i, op, pc>>

(* A client gives way outside the lock or while it holds it. *)
Yield(t) ==
    /\ pc[t] \in {"out", "in"}
    /\ Rotate
    /\ UNCHANGED <<mutex, sems, state, i, op, pc>>

-----------------------------------------------------------------------------
(* Semaphores *)

SemWait(t, s, next) ==
    /\ Goto(t, next)
    /\ \/ /\ counter[s] > 0
          /\ counter' = [counter EXCEPT ![s] = @ - 1]
          /\ UNCHANGED <<semq, sched>>
       \/ /\ counter[s] = 0
          /\ semq' = [semq EXCEPT ![s] = Append(@, t)]
          /\ Dispatch
          /\ UNCHANGED counter

PostWakesNobody(s) ==                       \* mutation: the queue is not looked at
    /\ counter' = [counter EXCEPT ![s] = @ + 1]
    /\ UNCHANGED <<semq, sched>>

SemPost(s) ==
    /\ UNCHANGED active
    /\ \/ /\ semq[s] # << >>
          /\ exe' = Append(exe, Head(semq[s]))
          /\ semq' = [semq EXCEPT ![s] = Tail(@)]
          /\ UNCHANGED counter
       \/ /\ semq[s] = << >>
          /\ counter' = [counter EXCEPT ![s] = @ + 1]
          /\ UNCHANGED <<semq, exe>>

-----------------------------------------------------------------------------
(* sthread_user_rwlock_rdlock and sthread_user_rwlock_wrlock *)

Call(t) ==
    /\ pc[t] = "out"
    /\ \E k \in Kinds : op' = [op EXCEPT ![t] = k]
    /\ Goto(t, "lock")
    /\ UNCHANGED <<sched, mutex, sems, state, i>>

Lock(t) ==
    /\ pc[t] = "lock"
    /\ MutexLock(t, "test")
    /\ UNCHANGED <<sems, state, i, op>>

ReaderOvertakes == em_escrita = 1           \* mutation: a reader passes a waiting writer

ReaderMustWait == em_escrita = 1 \/ escritores_espera > 0

RdTest(t) ==
    /\ pc[t] = "test" /\ op[t] = "rd"
    /\ IF ReaderMustWait
       THEN /\ leitores_espera' = leitores_espera + 1
            /\ Goto(t, "park")
            /\ UNCHANGED nleitores
       ELSE /\ nleitores' = nleitores + 1
            /\ Goto(t, "done")
            /\ UNCHANGED leitores_espera
    /\ UNCHANGED <<sched, mutex, sems, em_escrita, escritores_espera, i, op>>

WriterIgnoresReaders == em_escrita = 1      \* mutation: only a writer keeps a writer out

WriterMustWait == em_escrita = 1 \/ nleitores > 0

WrTest(t) ==
    /\ pc[t] = "test" /\ op[t] = "wr"
    /\ IF WriterMustWait
       THEN /\ escritores_espera' = escritores_espera + 1
            /\ Goto(t, "park")
            /\ UNCHANGED em_escrita
       ELSE /\ em_escrita' = 1
            /\ Goto(t, "done")
            /\ UNCHANGED escritores_espera
    /\ UNCHANGED <<sched, mutex, sems, nleitores, leitores_espera, i, op>>

Park(t) ==
    /\ pc[t] = "park"
    /\ MutexUnlock(t, "wait")
    /\ UNCHANGED <<sems, state, i, op>>

Wait(t) ==
    /\ pc[t] = "wait"
    /\ SemWait(t, op[t], "relock")
    /\ UNCHANGED <<mutex, state, i, op>>

Relock(t) ==
    /\ pc[t] = "relock"
    /\ MutexLock(t, "done")
    /\ UNCHANGED <<sems, state, i, op>>

Done(t) ==
    /\ pc[t] = "done"
    /\ MutexUnlock(t, "in")
    /\ UNCHANGED <<sems, state, i, op>>

-----------------------------------------------------------------------------
(* sthread_user_rwlock_unlock *)

Release(t) ==
    /\ pc[t] = "in"
    /\ Goto(t, "unlock")
    /\ UNCHANGED <<sched, mutex, sems, state, i, op>>

Unlock(t) ==
    /\ pc[t] = "unlock"
    /\ MutexLock(t, "untest")
    /\ UNCHANGED <<sems, state, i, op>>

KeepsWriterCounted ==                       \* mutation: escritores_espera-- forgotten
    /\ SemPost("wr")
    /\ em_escrita' = 1
    /\ UNCHANGED escritores_espera

HandToWriter ==
    /\ SemPost("wr")
    /\ em_escrita' = 1
    /\ escritores_espera' = escritores_espera - 1

WriterUnlock(t) ==
    /\ pc[t] = "untest" /\ em_escrita = 1
    /\ \/ /\ leitores_espera > 0
          /\ em_escrita' = 0
          /\ i' = 0
          /\ Goto(t, "post")
          /\ UNCHANGED <<sched, sems, escritores_espera>>
       \/ /\ leitores_espera = 0 /\ escritores_espera > 0
          /\ HandToWriter
          /\ Goto(t, "undone")
          /\ UNCHANGED i
       \/ /\ leitores_espera = 0 /\ escritores_espera = 0
          /\ em_escrita' = 0
          /\ Goto(t, "undone")
          /\ UNCHANGED <<sched, sems, escritores_espera, i>>
    /\ UNCHANGED <<mutex, nleitores, leitores_espera, op>>

PostsOneTooFew(t) ==                        \* mutation: the loop stops one short
    /\ pc[t] = "post"
    /\ IF i + 1 < leitores_espera
       THEN /\ SemPost("rd")
            /\ nleitores' = nleitores + 1
            /\ i' = i + 1
            /\ UNCHANGED <<leitores_espera, pc>>
       ELSE /\ leitores_espera' = leitores_espera - i
            /\ i' = 0
            /\ Goto(t, "undone")
            /\ UNCHANGED <<sched, sems, nleitores>>
    /\ UNCHANGED <<mutex, em_escrita, escritores_espera, op>>

PostsUncounted(t) ==                        \* mutation: nleitores++ forgotten in the loop
    /\ pc[t] = "post"
    /\ \/ /\ i < leitores_espera
          /\ SemPost("rd")
          /\ i' = i + 1
          /\ UNCHANGED <<leitores_espera, pc>>
       \/ /\ i >= leitores_espera
          /\ leitores_espera' = leitores_espera - i
          /\ i' = 0
          /\ Goto(t, "undone")
          /\ UNCHANGED <<sched, sems>>
    /\ UNCHANGED <<mutex, nleitores, em_escrita, escritores_espera, op>>

PostReaders(t) ==       \* one round of the loop, or its end
    /\ pc[t] = "post"
    /\ \/ /\ i < leitores_espera
          /\ SemPost("rd")
          /\ nleitores' = nleitores + 1
          /\ i' = i + 1
          /\ UNCHANGED <<leitores_espera, pc>>
       \/ /\ i >= leitores_espera
          /\ leitores_espera' = leitores_espera - i
          /\ i' = 0
          /\ Goto(t, "undone")
          /\ UNCHANGED <<sched, sems, nleitores>>
    /\ UNCHANGED <<mutex, em_escrita, escritores_espera, op>>

ForgetsLastWriter == nleitores = 1 /\ escritores_espera > 1     \* mutation: off by one

LastReaderHands == nleitores = 1 /\ escritores_espera > 0

ReaderUnlock(t) ==
    /\ pc[t] = "untest" /\ em_escrita = 0
    /\ nleitores' = nleitores - 1
    /\ IF LastReaderHands
       THEN HandToWriter
       ELSE UNCHANGED <<sched, sems, em_escrita, escritores_espera>>
    /\ Goto(t, "undone")
    /\ UNCHANGED <<mutex, leitores_espera, i, op>>

Undone(t) ==
    /\ pc[t] = "undone"
    /\ MutexUnlock(t, "out")
    /\ op' = [op EXCEPT ![t] = "none"]
    /\ UNCHANGED <<sems, state, i>>

-----------------------------------------------------------------------------
Inside(t) ==    \* the steps inside a call of the lock's operations
    \/ Lock(t) \/ RdTest(t) \/ WrTest(t) \/ Park(t) \/ Wait(t) \/ Relock(t)
    \/ Done(t) \/ Unlock(t) \/ WriterUnlock(t) \/ PostReaders(t)
    \/ ReaderUnlock(t) \/ Undone(t)

Step(t) == Call(t) \/ Release(t) \/ Yield(t) \/ Inside(t)

Next == Tick \/ Step(active)

SafetySpec == Init /\ [][Next]_vars

(***************************************************************************)
(* A time slice is long enough for progress: a thread that is dispatched   *)
(* again and again executes its next library step; and a client that holds *)
(* the lock and is dispatched again and again lets it go.  With time       *)
(* slices ticks never end.  Without them the clients have to give way when *)
(* they are outside the lock; nobody has to ask for it.                    *)
(***************************************************************************)
Forward(t) == active = t /\ (Inside(t) \/ Release(t))
GiveWay(t) == active = t /\ pc[t] = "out" /\ Yield(t)

SlicedSpec ==
    /\ SafetySpec
    /\ WF_vars(Tick)
    /\ \A t \in Threads : SF_vars(Forward(t))

CoopSpec ==
    /\ SafetySpec
    /\ \A t \in Threads : SF_vars(Forward(t)) /\ SF_vars(GiveWay(t))

-----------------------------------------------------------------------------
(* Correctness *)

Holding(k) == {t \in Threads : op[t] = k /\ pc[t] \in {"in", "unlock"}}

(* counted in leitores_espera or escritores_espera, or posted for but not yet
   past sem_wait *)
Waiting(k) == {t \in Threads : op[t] = k /\
    (pc[t] \in {"park", "wait"} \/ (pc[t] = "relock" /\ t \in Elements(semq[k])))}

(* let in, whether or not its call has returned, and not yet taken out *)
Admitted(k) == {t \in Threads : op[t] = k /\
    (pc[t] \in {"done", "in", "unlock", "untest"}
     \/ (pc[t] = "relock" /\ t \notin Elements(semq[k])))}

(* A writer that is past wrlock is the only client past rdlock or wrlock: the
   reason for the lock (sthread_user.c 629-659). *)
Exclusion ==
    \A w \in Holding("wr") : Holding("wr") = {w} /\ Holding("rd") = {}

(* The four counters mean what their names say, between any two steps and with
   a writer in the middle of its post loop: a unit in a semaphore stands for a
   client that was let in and has yet to reach sem_wait (lines 629-692). *)
Counts ==
    /\ nleitores = Cardinality(Admitted("rd")) + counter["rd"]
    /\ em_escrita = Cardinality(Admitted("wr")) + counter["wr"]
    /\ leitores_espera - i + counter["rd"] = Cardinality(Waiting("rd"))
    /\ escritores_espera + counter["wr"] = Cardinality(Waiting("wr"))

(* Whoever is counted as waiting has somebody to wake it: while nobody is
   inside the mutex, waiting readers have a writer in or ahead of them, and
   waiting writers have a client in (lines 629-692). *)
NoLostWakeup ==
    thr = NoThread =>
        /\ leitores_espera > 0 => em_escrita = 1 \/ escritores_espera > 0
        /\ escritores_espera > 0 => em_escrita = 1 \/ nleitores > 0

(* The active thread never goes to sleep as the last runnable one: sem_wait
   takes the first of exe_thr_list without looking whether there is one (line
   557), and the mutex would too. *)
SomebodyToDispatch ==
    \/ (pc[active] = "wait" /\ counter[op[active]] = 0)
    \/ (pc[active] \in {"lock", "relock", "unlock"} /\ thr # NoThread)
    => exe # << >>

(* A thread that executes between mutex_lock and mutex_unlock owns the mutex,
   so no two threads ever do (include/sthread.h 79-83). *)
MutexExclusion ==
    pc[active] \in {"test", "park", "done", "untest", "post", "undone"} => thr = active

(* Nobody ever finds the mutex taken: the built-in cooperation of a library
   without time slices, and why line 491 does it no harm. *)
NeverContended == lockq = << >>

(* Every request for the lock is served, a reader's as well as a writer's: a
   stream of readers does not keep a writer out, nor the other way round. *)
NoStarvation == \A t \in Threads : pc[t] = "lock" ~> pc[t] = "in"

LockStatus == [t \in Threads |->     \* what the lock is to each thread
    CASE pc[t] = "in" /\ op[t] = "rd" -> "reading"
      [] pc[t] = "in" /\ op[t] # "rd" -> "writing"
      [] pc[t] \in {"lock", "test", "park", "wait", "relock", "done"} ->
            IF op[t] = "rd" THEN "rwait" ELSE "wwait"
      [] OTHER -> "out"]

Abstract == INSTANCE ReadersWriter WITH st <- LockStatus

(* The lock is the read-write lock of ReadersWriter: who is in never breaks its
   promise (include/sthread.h 96-108). *)
IsReadersWriter == Abstract!SafetySpec

-----------------------------------------------------------------------------
(***************************************************************************)
(* The inductive invariant behind the properties above, for a library that *)
(* does not combine time slices with the requeue of line 491.              *)
(***************************************************************************)
Critical == {"test", "park", "done", "untest", "post", "undone"}

Asleep == Elements(lockq) \cup Elements(semq["rd"]) \cup Elements(semq["wr"])

SchedInv ==     \* a thread either sleeps, or runs, or can be dispatched
    /\ Once(exe) /\ active \notin Elements(exe)
    /\ active \notin Asleep
    /\ Elements(exe) \cap Asleep = {}
    /\ Threads \subseteq {active} \cup Elements(exe) \cup Asleep

QueueInv ==     \* who sleeps where
    /\ Once(lockq)
    /\ \A t \in Elements(lockq) : pc[t] \in {"test", "done", "untest"}
    /\ \A k \in Kinds :
          /\ Once(semq[k])
          /\ \A t \in Elements(semq[k]) : pc[t] = "relock" /\ op[t] = k
          /\ counter[k] > 0 => semq[k] = << >>

MutexInv ==     \* the owner is the one awake thread in a critical section
    /\ \A t \in Threads : thr = t <=> pc[t] \in Critical /\ t \notin Elements(lockq)
    /\ thr = NoThread => lockq = << >>
    /\ Requeue => lockq = << >> /\ thr \in {NoThread, active}

ClientInv == \A t \in Threads :
    /\ pc[t] = "out" <=> op[t] = "none"
    /\ pc[t] = "post" => op[t] = "wr"

LoopInv ==      \* the post loop of a writer
    /\ \A t \in Threads : pc[t] = "post" =>
          em_escrita = 0 /\ leitores_espera > 0 /\ i <= leitores_espera /\ i <= nleitores
    /\ (\A t \in Threads : pc[t] # "post") => i = 0

AdmitInv == em_escrita = 1 => nleitores = 0

WakeInv == (\A t \in Threads : pc[t] # "post") =>
    /\ leitores_espera > 0 => em_escrita = 1 \/ escritores_espera > 0
    /\ escritores_espera > 0 => em_escrita = 1 \/ nleitores > 0

IInv ==
    /\ TypeOK /\ SchedInv /\ QueueInv /\ MutexInv /\ ClientInv
    /\ Counts /\ LoopInv /\ AdmitInv /\ WakeInv

=============================================================================
