------------------------------- MODULE USync -------------------------------
(***************************************************************************)
(* The processor and one mutex of the user-level thread library:           *)
(* src/sthread_lib/sthread_user.c, lines 267-289 and 439-521.              *)
(*                                                                         *)
(* One processor: only active_thr executes.  pc[t] is the statement at     *)
(* which t continues when it is dispatched, so a thread put to sleep       *)
(* inside a call already has the pc of the statement after the call; that  *)
(* it sleeps shows in the queues.  The spin lock l of the mutex makes each *)
(* of its operations one step.                                             *)
(*                                                                         *)
(* TimeSlice: the library is built without DISABLE_TIME_SLICE, so a clock  *)
(* tick may take the processor away between any two steps.                 *)
(* Requeue: a thread that finds the mutex taken enters the run queue as    *)
(* well as the mutex's queue, which is what line 491 does.  FALSE is the   *)
(* mutex include/sthread.h promises ("blocking if neccessary").  A tick    *)
(* between the two insertions (487-489) is one more round of the run       *)
(* queue, as is a tick after the call.                                     *)
(***************************************************************************)
EXTENDS Integers, Sequences, FiniteSets

CONSTANTS Threads, NoThread, TimeSlice, Requeue

ASSUME ThreadsAssumption ==
    /\ IsFiniteSet(Threads)
    /\ NoThread \notin Threads

ASSUME BuildAssumption == TimeSlice \in BOOLEAN /\ Requeue \in BOOLEAN

VARIABLES
    active,             \* active_thr
    exe,                \* exe_thr_list
    thr, lockq,         \* the mutex: its owner and its queue
    pc                  \* where each thread is

sched == <<active, exe>>
mutex == <<thr, lockq>>

Elements(q) == {q[k] : k \in DOMAIN q}

Orders(S) ==    \* the sequences that hold every element of S once
    {q \in [1..Cardinality(S) -> S] : Elements(q) = S}

Once(q) == \A j, k \in DOMAIN q : q[j] = q[k] => j = k

-----------------------------------------------------------------------------
Goto(t, next) == pc' = [pc EXCEPT ![t] = next]

Rotate ==       \* sthread_user_yield: a first-in first-out round
    /\ active' = Head(Append(exe, active))
    /\ exe' = Tail(Append(exe, active))

Dispatch ==     \* queue_remove on an empty run queue reads through NULL
    /\ exe # << >>
    /\ active' = Head(exe)
    /\ exe' = Tail(exe)

-----------------------------------------------------------------------------
MutexInit == thr = NoThread /\ lockq = << >>

MutexLock(t, next) ==
    /\ Goto(t, next)
    /\ \/ /\ thr = NoThread
          /\ thr' = t
          /\ UNCHANGED <<sched, lockq>>
       \/ /\ thr # NoThread
          /\ lockq' = Append(lockq, t)
          /\ IF Requeue THEN Rotate ELSE Dispatch
          /\ UNCHANGED thr

UnlockLosesQueue(t, next) ==                \* mutation: the owner is cleared, nobody woken
    /\ Goto(t, next)
    /\ thr' = IF thr = t THEN NoThread ELSE thr
    /\ UNCHANGED <<sched, lockq>>

MutexUnlock(t, next) ==
    /\ Goto(t, next)
    /\ UNCHANGED active
    /\ \/ /\ thr # t            \* "unlock without lock!"
          /\ UNCHANGED <<mutex, exe>>
       \/ /\ thr = t /\ lockq = << >>
          /\ thr' = NoThread
          /\ UNCHANGED <<lockq, exe>>
       \/ /\ thr = t /\ lockq # << >>
          /\ thr' = Head(lockq)
          /\ lockq' = Tail(lockq)
          /\ exe' = Append(exe, Head(lockq))

=============================================================================
