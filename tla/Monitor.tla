------------------------------ MODULE Monitor ------------------------------
(***************************************************************************)
(* The monitor of the user-level thread library:                           *)
(* src/sthread_lib/sthread_user.c, lines 694-797, over the mutex of USync. *)
(* A waiting thread is moved to the mutex's queue by a signal, and leaves  *)
(* that one as the owner of the mutex.                                     *)
(*                                                                         *)
(* The code's mutex puts a thread that finds it taken into two queues      *)
(* (Requeue, line 491 of sthread_user.c), and the thread goes on without   *)
(* owning it.  What the monitor keeps all the same is said per thread, by  *)
(* a count of how often that has happened to it.                           *)
(***************************************************************************)
EXTENDS USync

CONSTANT MaxRequeues    \* bound: how often a thread enters through line 491

ASSUME RequeuesAssumption == MaxRequeues \in Nat

VARIABLES
    monq,               \* mon->queue
    requeued            \* history: how often line 491 has put each thread in two queues

vars == <<sched, mutex, monq, pc, requeued>>

PCs == {"out", "in", "leave", "sleep"}

TypeOK ==
    /\ active \in Threads \cup {NoThread}       \* NoThread: the program has crashed
    /\ exe \in Seq(Threads)
    /\ thr \in Threads \cup {NoThread}
    /\ lockq \in Seq(Threads)
    /\ thr = NoThread => lockq = << >>
    /\ monq \in Seq(Threads)
    /\ pc \in [Threads -> PCs]
    /\ requeued \in [Threads -> 0 .. MaxRequeues]

Init ==
    /\ active \in Threads
    /\ exe \in Orders(Threads \ {active})
    /\ MutexInit
    /\ monq = << >>
    /\ pc = [t \in Threads |-> "out"]
    /\ requeued = [t \in Threads |-> 0]

Tick ==
    /\ TimeSlice /\ active # NoThread
    /\ Rotate
    /\ UNCHANGED <<mutex, monq, pc, requeued>>

Yield(t) ==
    /\ pc[t] \in {"out", "in"}
    /\ Rotate
    /\ UNCHANGED <<mutex, monq, pc, requeued>>

-----------------------------------------------------------------------------
Enter(t) ==
    /\ pc[t] = "out"
    /\ MutexLock(t, "in")
    /\ \/ /\ thr = NoThread \/ ~Requeue
          /\ UNCHANGED requeued
       \/ /\ thr # NoThread /\ Requeue /\ requeued[t] < MaxRequeues
          /\ requeued' = [requeued EXCEPT ![t] = @ + 1]
    /\ UNCHANGED monq

Exit(t) ==
    /\ pc[t] = "in"
    /\ MutexUnlock(t, "out")
    /\ UNCHANGED <<monq, requeued>>

Wait(t) ==
    /\ pc[t] = "in" /\ thr = t      \* "monitor wait called outside monitor"
    /\ monq' = Append(monq, t)
    /\ Goto(t, "leave")
    /\ UNCHANGED <<sched, mutex, requeued>>

ForgetsToHandOver(t) == \* mutation: the mutex is freed, with threads still in its queue
    /\ pc[t] = "leave"
    /\ UnlockLosesQueue(t, "sleep")
    /\ UNCHANGED <<monq, requeued>>

Leave(t) ==
    /\ pc[t] = "leave"
    /\ MutexUnlock(t, "sleep")
    /\ UNCHANGED <<monq, requeued>>

(* A tick since the unlock may have put t in the run queue, and a signal since then
   may have done so too: it can be its own successor. *)
Sleep(t) ==
    /\ pc[t] = "sleep"
    /\ Goto(t, "in")
    /\ \/ Dispatch
       \/ exe = << >> /\ active' = NoThread /\ UNCHANGED exe    \* reads through NULL
    /\ UNCHANGED <<mutex, monq, requeued>>

SignalsFromOutside(t) ==        \* mutation: the owner of the mutex is not looked at
    /\ pc[t] \in {"in", "out"}
    /\ monq # << >>
    /\ lockq' = Append(lockq, Head(monq)) /\ monq' = Tail(monq)
    /\ UNCHANGED <<sched, thr, pc, requeued>>

SignalDispatches(t) ==          \* mutation: the waiting thread goes on at once
    /\ pc[t] = "in" /\ thr = t
    /\ monq # << >>
    /\ exe' = Append(exe, Head(monq)) /\ monq' = Tail(monq)
    /\ UNCHANGED <<active, mutex, pc, requeued>>

Signal(t) ==
    /\ pc[t] = "in" /\ thr = t      \* "monitor signal called outside monitor"
    /\ monq # << >>
    /\ lockq' = Append(lockq, Head(monq)) /\ monq' = Tail(monq)
    /\ UNCHANGED <<sched, thr, pc, requeued>>

MovesTheFirst(t) ==             \* mutation: all are removed, one is entered
    /\ pc[t] = "in" /\ thr = t
    /\ monq # << >>
    /\ lockq' = Append(lockq, Head(monq)) /\ monq' = << >>
    /\ UNCHANGED <<sched, thr, pc, requeued>>

SignalAll(t) ==
    /\ pc[t] = "in" /\ thr = t      \* "monitor signalall called outside monitor"
    /\ lockq' = lockq \o monq /\ monq' = << >>
    /\ UNCHANGED <<sched, thr, pc, requeued>>

-----------------------------------------------------------------------------
Step(t) ==
    \/ Enter(t) \/ Exit(t) \/ Wait(t) \/ Leave(t) \/ Sleep(t)
    \/ Signal(t) \/ SignalAll(t) \/ Yield(t)

Next == Tick \/ (active # NoThread /\ Step(active))

(* Ticks do not end, a thread dispatched again and again executes its next library
   step, and a client inside that is dispatched again and again exits or waits. *)
Forward(t) == active = t /\ (Leave(t) \/ Sleep(t) \/ Exit(t) \/ Wait(t))

Spec ==
    /\ Init /\ [][Next]_vars
    /\ WF_vars(Tick)
    /\ \A t \in Threads : SF_vars(Forward(t))

-----------------------------------------------------------------------------
(* Correctness *)

(* Who executes inside the monitor owns the mutex, also when it comes back from a wait
   (lines 733-755), unless line 491 has ever put it in two queues; what the others do
   without owning the mutex does not change that. *)
OneInside ==
    active # NoThread /\ pc[active] \in {"in", "leave"} /\ requeued[active] = 0 => thr = active

Places(t, q) == Cardinality({k \in DOMAIN q : q[k] = t})

(* No thread is lost, and none goes on without a signal but for line 491: each is running,
   or once in one of the queues; one that has entered the monitor's queue and is not
   asleep yet (lines 744-752) is there a second time, whatever ticks and signals come in
   between, and each entry through line 491 adds a place for good. *)
Accounted ==
    active # NoThread => \A t \in Threads :
        Places(t, <<active>> \o exe) + Places(t, lockq) + Places(t, monq)
            = (IF pc[t] \in {"leave", "sleep"} THEN 2 ELSE 1) + requeued[t]

(* The library runs out of threads (line 752 takes the first of an empty list) only when
   its clients have all gone to wait. *)
CrashOnlyWhenAllWait == active = NoThread => Elements(monq) = Threads

(* Whoever asks to enter, and whoever is signalled, comes to execute inside as the owner
   (include/sthread.h 122-135), as long as line 491 has put nobody in two queues. *)
EnterReturns == \A t \in Threads :
    t \in Elements(lockq) ~> \/ active = t /\ thr = t /\ pc[t] = "in"
                            \/ \E u \in Threads : requeued[u] > 0

=============================================================================
