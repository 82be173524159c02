-------------------------------- MODULE Sched --------------------------------
(***************************************************************************)
(* The life of a thread of the user-level library: create, yield, exit,    *)
(* join, sleep and the clock interrupt, with the lists they keep threads   *)
(* in (src/sthread_lib/sthread_user.c, lines 81-433).                      *)
(*                                                                         *)
(* Create, yield, exit, join and sleep run between splx(HIGH) and splx(LOW)*)
(* and are one step each.  The clock interrupt is not: yield, which it may *)
(* call, ends with splx(LOW), and clock_tick unblocks the signal before it *)
(* calls the dispatcher, so that a tick may fall into the handler of       *)
(* another, up to MaxHandlers deep on each thread's stack.  It cannot fall *)
(* into queue.c, whose code clock_tick does not interrupt.                 *)
(*                                                                         *)
(* Where the handler goes on with memory that another has freed meanwhile, *)
(* or walks along a list from which another has taken the elements, C      *)
(* promises nothing: the program is "undefined" from there on.             *)
(*                                                                         *)
(* The clients join each thread once at the most: what a second join does  *)
(* at the same time is "undefined" (line 315).                             *)
(*                                                                         *)
(* Left out: the value an exit hands to join ("there is no way to retrieve *)
(* the return value", include/sthread.h 44); dead_thr_list, from which     *)
(* nothing is read before the program ends; and the fields prio, nice,     *)
(* vruntime, runtime, waittime, sleeptime and state: qsort is called with  *)
(* no elements (line 282), so that only sthread_dump reads them.  That the *)
(* dispatcher walks along the lists to count them is modelled.             *)
(***************************************************************************)
EXTENDS Integers, Sequences, FiniteSets

CONSTANTS
    Threads, Main,
    NoThread,
    YieldAfter,     \* 5: the ticks a thread receives before one takes the processor away
    MaxSleep,       \* bound: the longest sleep, in ticks
    MaxHandlers     \* bound: the interrupts on one thread's stack

ASSUME SchedAssumption ==
    /\ IsFiniteSet(Threads) /\ Main \in Threads /\ NoThread \notin Threads
    /\ YieldAfter \in Nat \ {0} /\ MaxSleep \in Nat /\ MaxHandlers \in Nat \ {0}

VARIABLES
    program,        \* "runs", "ended" by exit(0), "crashed" on a NULL queue element, "undefined"
    active, exe, sleep, join, zombie,   \* active_thr and the lists
    ticks_left,     \* wake_time - Clock of a sleeping thread; -1: the clock has passed it
    min_delay,      \* counted up to YieldAfter
    join_tid,
    pc,             \* "new": not created; "run"; "joined": where it goes on; "exited"
    result,         \* what the last join of each thread returned, and for whom
    asked,          \* history: whom any thread has called join for
    depth,          \* the interrupts that each thread has begun and not ended
    at,             \* where each of them goes on, "none" for those that are not begun
    hand, tmp,      \* its local variables thread and tmp_queue
    freed           \* the threads whose memory line 261 has given back

lists   == <<active, exe, sleep, join, zombie>>
handler == <<depth, at, hand, tmp, freed>>
vars    == <<program, lists, ticks_left, min_delay, join_tid, pc, result, asked, handler>>

(* The n-th interrupt on the stack of thread t is <<t, n>>. *)
Handlers == Threads \X (1 .. MaxHandlers)

Elements(q) == {q[k] : k \in DOMAIN q}

(* The elements of q that are in S, in their order: the n-th of them is the one with n
   of them up to it.  A list is emptied into two others by such loops (SelectSeq, which
   the prover has no facts about). *)
Kept(q, S) ==
    LET ks     == {k \in DOMAIN q : q[k] \in S}
        nth(n) == CHOOSE k \in ks : Cardinality(ks \cap 1 .. k) = n
    IN  [n \in 1 .. Cardinality(ks) |-> q[nth(n)]]

PCs == {"new", "run", "joined", "exited"}

Places == {"none", "count", "test", "remove", "compare", "wake", "keep", "delete", "assign"}

TypeOK ==
    /\ program \in {"runs", "ended", "crashed", "undefined"}
    /\ active \in Threads
    /\ {exe, sleep, join, zombie} \subseteq Seq(Threads)
    /\ ticks_left \in [Threads -> -1 .. MaxSleep]
    /\ min_delay \in [Threads -> 0 .. YieldAfter]
    /\ join_tid \in [Threads -> Threads \cup {NoThread}]
    /\ pc \in [Threads -> PCs]
    /\ result \in [Threads -> [of : Threads \cup {NoThread}, is : {"none", "ok", "error"}]]
    /\ asked \subseteq Threads
    /\ depth \in [Threads -> 0 .. MaxHandlers]
    /\ at \in [Handlers -> Places]
    /\ hand \in [Handlers -> Threads \cup {NoThread}]
    /\ tmp \in [Handlers -> Seq(Threads)]
    /\ freed \subseteq Threads

Init ==
    /\ program = "runs"
    /\ active = Main
    /\ exe = << >> /\ sleep = << >> /\ join = << >> /\ zombie = << >>
    /\ ticks_left = [t \in Threads |-> 0]
    /\ min_delay = [t \in Threads |-> 0]
    /\ join_tid = [t \in Threads |-> NoThread]
    /\ pc = [t \in Threads |-> IF t = Main THEN "run" ELSE "new"]
    /\ result = [t \in Threads |-> [of |-> NoThread, is |-> "none"]]
    /\ asked = {}
    /\ depth = [t \in Threads |-> 0]
    /\ at = [h \in Handlers |-> "none"]
    /\ hand = [h \in Handlers |-> NoThread]
    /\ tmp = [h \in Handlers |-> << >>]
    /\ freed = {}

-----------------------------------------------------------------------------
Running(place) == program = "runs" /\ depth[active] = 0 /\ pc[active] = place

Goto(t, next) == pc' = [pc EXCEPT ![t] = next]

KeepsInQueue(q) ==  \* mutation: the thread that is dispatched stays in the list
    /\ active' = Head(q)
    /\ exe' = q

SwitchTo(q) ==      \* active_thr = queue_remove(exe_thr_list), the list being q
    /\ active' = Head(q)
    /\ exe' = Tail(q)

Create ==
    /\ Running("run")
    /\ \E t \in Threads :
          /\ pc[t] = "new"
          /\ exe' = Append(exe, t)
          /\ Goto(t, "run")
    /\ UNCHANGED <<program, active, sleep, join, zombie, ticks_left, min_delay,
                   join_tid, result, asked, handler>>

Yield ==
    /\ Running("run")
    /\ SwitchTo(Append(exe, active))
    /\ UNCHANGED <<program, sleep, join, zombie, ticks_left, min_delay,
                   join_tid, pc, result, asked, handler>>

-----------------------------------------------------------------------------
(* The clock interrupt *)

Top == <<active, depth[active]>>        \* the interrupt the active thread is in

In(place) == program = "runs" /\ depth[active] > 0 /\ at[Top] = place

Proceed(place) == at' = [at EXCEPT ![Top] = place]

Waiting ==          \* asleep, or on the way from one list of sleepers to the next
    Elements(sleep) \cup UNION {Elements(tmp[h]) : h \in Handlers}
                    \cup {hand[h] : h \in {g \in Handlers : at[g] \in {"compare", "keep"}}}

Passed ==           \* the clock moves on
    [t \in Threads |-> IF t \in Waiting /\ ticks_left[t] >= 0
                       THEN ticks_left[t] - 1 ELSE ticks_left[t]]

NeverDelayed == min_delay[active]       \* mutation: min_delay is not counted

Delayed == IF min_delay[active] < YieldAfter THEN min_delay[active] + 1 ELSE YieldAfter

Dangling == depth[active] > 0 /\ at[Top] = "assign"     \* sleep_thr_list has been freed

(* The interrupted one was walking along a list, and this one takes its elements. *)
Tramples == depth[active] > 0 /\ at[Top] = "count" /\ (sleep # << >> \/ exe # << >>)

Tick ==             \* clock_tick, and the dispatcher up to its walks along the lists
    /\ program = "runs" /\ pc[active] = "run"
    /\ depth[active] < MaxHandlers
    /\ \/ /\ ~Dangling
          /\ depth' = [depth EXCEPT ![active] = @ + 1]
          /\ at' = [at EXCEPT ![<<active, depth[active] + 1>>] = "count"]
          /\ min_delay' = [min_delay EXCEPT ![active] = Delayed]
          /\ ticks_left' = Passed
          /\ UNCHANGED program
       \/ /\ Dangling \/ Tramples
          /\ program' = "undefined"
          /\ UNCHANGED <<depth, at, min_delay, ticks_left>>
    /\ UNCHANGED <<lists, join_tid, pc, result, asked, hand, tmp, freed>>

Preempt ==          \* the rest runs when the thread is dispatched again
    /\ In("count")
    /\ Proceed("test")
    /\ \/ /\ exe # << >> /\ min_delay[active] >= YieldAfter
          /\ SwitchTo(Append(exe, active))
       \/ /\ exe = << >> \/ min_delay[active] < YieldAfter
          /\ UNCHANGED <<active, exe>>
    /\ UNCHANGED <<program, sleep, join, zombie, ticks_left, min_delay, join_tid, pc,
                   result, asked, depth, hand, tmp, freed>>

(* The scan of the sleeping threads: only wake_time == Clock counts. *)
ScanTest ==
    /\ In("test")
    /\ Proceed(IF sleep = << >> THEN "delete" ELSE "remove")
    /\ UNCHANGED <<program, lists, ticks_left, min_delay, join_tid, pc, result, asked,
                   depth, hand, tmp, freed>>

ScanRemove ==
    /\ In("remove")
    /\ \/ /\ sleep # << >>
          /\ hand' = [hand EXCEPT ![Top] = Head(sleep)]
          /\ sleep' = Tail(sleep)
          /\ Proceed("compare")
          /\ UNCHANGED program
       \/ /\ sleep = << >>             \* another has emptied it since the test
          /\ program' = "crashed"
          /\ UNCHANGED <<hand, sleep, at>>
    /\ UNCHANGED <<active, exe, join, zombie, ticks_left, min_delay, join_tid, pc, result,
                   asked, depth, tmp, freed>>

ScanCompare ==
    /\ In("compare")
    /\ Proceed(IF ticks_left[hand[Top]] = 0 THEN "wake" ELSE "keep")
    /\ UNCHANGED <<program, lists, ticks_left, min_delay, join_tid, pc, result, asked,
                   depth, hand, tmp, freed>>

WakesAndKeeps ==    \* mutation: a thread that is woken stays in hand
    /\ In("wake")
    /\ exe' = Append(exe, hand[Top])
    /\ Proceed("keep")
    /\ UNCHANGED <<program, active, sleep, join, zombie, ticks_left, min_delay, join_tid,
                   pc, result, asked, depth, hand, tmp, freed>>

ScanWake ==
    /\ In("wake")
    /\ exe' = Append(exe, hand[Top])
    /\ hand' = [hand EXCEPT ![Top] = NoThread]
    /\ Proceed("test")
    /\ UNCHANGED <<program, active, sleep, join, zombie, ticks_left, min_delay, join_tid,
                   pc, result, asked, depth, tmp, freed>>

ScanKeep ==
    /\ In("keep")
    /\ tmp' = [tmp EXCEPT ![Top] = Append(@, hand[Top])]
    /\ hand' = [hand EXCEPT ![Top] = NoThread]
    /\ Proceed("test")
    /\ UNCHANGED <<program, lists, ticks_left, min_delay, join_tid, pc, result, asked,
                   depth, freed>>

ScanDelete ==       \* delete_queue frees the threads that are still, or again, in the list
    /\ In("delete")
    /\ freed' = freed \cup Elements(sleep)
    /\ sleep' = << >>
    /\ Proceed("assign")
    /\ UNCHANGED <<program, active, exe, join, zombie, ticks_left, min_delay, join_tid, pc,
                   result, asked, depth, hand, tmp>>

ScanAssign ==
    /\ In("assign")
    /\ sleep' = tmp[Top]
    /\ tmp' = [tmp EXCEPT ![Top] = << >>]
    /\ Proceed("none")
    /\ depth' = [depth EXCEPT ![active] = @ - 1]
    /\ UNCHANGED <<program, active, exe, join, zombie, ticks_left, min_delay, join_tid, pc,
                   result, asked, hand, freed>>

Scan ==
    \/ ScanTest \/ ScanRemove \/ ScanCompare \/ ScanWake \/ ScanKeep
    \/ ScanDelete \/ ScanAssign

-----------------------------------------------------------------------------
(* exit, join and sleep *)

EndOrSwitch(q) ==   \* with nobody to dispatch the program exits
    IF q = << >>
    THEN program' = "ended" /\ exe' = q /\ UNCHANGED active
    ELSE SwitchTo(q) /\ UNCHANGED program

LooksAtFirstOnly == \* mutation: exit looks at the first of the join list, not at all
    /\ Running("run")
    /\ LET found == join # << >> /\ join_tid[Head(join)] = active
       IN  /\ join' = IF found THEN Tail(join) ELSE join
           /\ zombie' = IF found THEN zombie ELSE Append(zombie, active)
           /\ EndOrSwitch(IF found THEN Append(exe, Head(join)) ELSE exe)
    /\ Goto(active, "exited")
    /\ UNCHANGED <<sleep, ticks_left, min_delay, join_tid, result, asked, handler>>

WakesAllJoiners ==  \* mutation: exit does not look whom they joined
    /\ Running("run")
    /\ join' = << >>
    /\ zombie' = IF join = << >> THEN Append(zombie, active) ELSE zombie
    /\ EndOrSwitch(exe \o join)
    /\ Goto(active, "exited")
    /\ UNCHANGED <<sleep, ticks_left, min_delay, join_tid, result, asked, handler>>

WakesNobody ==      \* mutation: exit leaves the join list alone
    /\ Running("run")
    /\ zombie' = Append(zombie, active)
    /\ EndOrSwitch(exe)
    /\ Goto(active, "exited")
    /\ UNCHANGED <<sleep, join, ticks_left, min_delay, join_tid, result, asked, handler>>

Exit ==
    /\ Running("run")
    /\ LET mine    == {t \in Threads : join_tid[t] = active}
           waiters == Kept(join, mine)
       IN  /\ join' = Kept(join, Threads \ mine)
           /\ zombie' = IF waiters = << >> THEN Append(zombie, active) ELSE zombie
           /\ EndOrSwitch(exe \o waiters)
    /\ Goto(active, "exited")
    /\ UNCHANGED <<sleep, ticks_left, min_delay, join_tid, result, asked, handler>>

(* The search for the target among the zombies puts the target back, not the
   zombie it looked at (line 333). *)
Rescanned(target) ==
    [k \in DOMAIN Kept(zombie, Threads \ {target}) |-> target]

Living(target) ==       \* a sleeper in an interrupted scan's tmp_queue is not found
    target \in {active} \cup Elements(exe) \cup Elements(sleep) \cup Elements(join)

Returns(t, target, code) == result' = [result EXCEPT ![t] = [of |-> target, is |-> code]]

JoinFreed(target) ==            \* line 329 reads the tid of a thread that line 261 has freed
    /\ Running("run") /\ target \in freed
    /\ target \notin asked
    /\ program' = "undefined"
    /\ UNCHANGED <<lists, ticks_left, min_delay, join_tid, pc, result, asked, handler>>

Join(target) ==
    /\ Running("run") /\ pc[target] # "new" /\ target \notin freed
    /\ target # Main               \* of the main thread nobody has the sthread_t
    /\ target \notin asked
    /\ asked' = asked \cup {target}
    /\ zombie' = Rescanned(target)
    /\ \/ /\ target \in Elements(zombie)
          /\ Returns(active, target, "ok")
          /\ UNCHANGED <<program, active, exe, join, join_tid, pc>>
       \/ /\ target \notin Elements(zombie) /\ ~Living(target)
          /\ Returns(active, target, "error")
          /\ UNCHANGED <<program, active, exe, join, join_tid, pc>>
       \/ /\ target \notin Elements(zombie) /\ Living(target)
          /\ join_tid' = [join_tid EXCEPT ![active] = target]
          /\ join' = Append(join, active)
          /\ Goto(active, "joined")
          /\ Returns(active, target, "none")
          /\ IF exe = << >>     \* queue_remove reads through NULL
             THEN program' = "crashed" /\ UNCHANGED <<active, exe>>
             ELSE SwitchTo(exe) /\ UNCHANGED program
    /\ UNCHANGED <<sleep, ticks_left, min_delay, handler>>

JoinReturn ==
    /\ Running("joined")
    /\ Returns(active, join_tid[active], "ok")
    /\ Goto(active, "run")
    /\ UNCHANGED <<program, lists, ticks_left, min_delay, join_tid, asked, handler>>

SleepsLonger(n) ==  \* mutation: the tick in which it is called is not counted
    /\ Running("run")
    /\ ticks_left' = [ticks_left EXCEPT ![active] = n + 1]
    /\ sleep' = Append(sleep, active)
    /\ EndOrSwitch(exe)
    /\ UNCHANGED <<join, zombie, min_delay, join_tid, pc, result, asked, handler>>

Sleep(n) ==         \* n = 0 returns at once
    /\ Running("run")
    /\ ticks_left' = [ticks_left EXCEPT ![active] = n]
    /\ sleep' = Append(sleep, active)
    /\ EndOrSwitch(exe)
    /\ UNCHANGED <<join, zombie, min_delay, join_tid, pc, result, asked, handler>>

-----------------------------------------------------------------------------
Next ==
    \/ Create \/ Yield \/ Tick \/ Preempt \/ Scan \/ Exit \/ JoinReturn
    \/ \E target \in Threads : Join(target) \/ JoinFreed(target)
    \/ \E n \in 1 .. MaxSleep : Sleep(n)

SafetySpec == Init /\ [][Next]_vars

(* The clock goes on ticking, and the library's own code goes on. *)
Spec == SafetySpec /\ WF_vars(Tick) /\ WF_vars(Preempt \/ Scan) /\ WF_vars(JoinReturn)

-----------------------------------------------------------------------------
(* Correctness *)

Alive == {t \in Threads : pc[t] \notin {"new", "exited"}}

Once(q) == \A j, k \in DOMAIN q : q[j] = q[k] => j = k

Holds(h) == Elements(tmp[h]) \cup ({hand[h]} \ {NoThread})

Interrupted == UNION {Holds(h) : h \in Handlers}

(* A thread that was created, has not exited and was not freed by line 261 is active, in
   exactly one of the lists exe, sleep and join, or held by exactly one interrupt that has
   not ended, and nobody else is: no operation loses a thread or queues it twice, with
   ticks and other threads between any two steps of an interrupt (lines 114-433). *)
OnePlace == program = "runs" =>
    /\ {active} \cup Elements(exe) \cup Elements(sleep) \cup Elements(join) \cup Interrupted
         = Alive \ freed
    /\ 1 + Len(exe) + Len(sleep) + Len(join) + Cardinality(Interrupted)
         = Cardinality(Alive \ freed)
    /\ \A h \in Handlers : Once(tmp[h]) /\ hand[h] \notin Elements(tmp[h])
    /\ \A g, h \in Handlers : g # h => Holds(g) \cap Holds(h) = {}

(* Nobody waits in join for a thread that has exited: exit wakes all that joined
   it, and join asks for the zombies and the living in one step (lines 146-172,
   320-395). *)
JoinersWaitForLiving == \A t \in Elements(join) : pc[join_tid[t]] # "exited"

(* "When a join returns successfully, the target thread has been terminated"
   (lines 312-313): the copies of live threads that a join leaves among the zombies
   do not matter while no thread is joined twice. *)
JoinMeansTerminated == \A t \in Threads :
    result[t].is = "ok" => pc[result[t].of] = "exited"

(* A sleeping thread's time is not passed over by the clock: who is passed over
   sleeps for ever ("suspends current thread for the time specified",
   include/sthread.h 55). *)
NotPassedOver == \A t \in Elements(sleep) : ticks_left[t] >= 0

(* Every thread that can run does, as long as the program runs: a thread that never
   gives way loses the processor to the clock (lines 241-246). *)
EveryoneRuns == \A t \in Threads :
    t \in Elements(exe) ~> active = t \/ program # "runs"

(* A thread that waits in join for a thread that exits returns from join (lines
   152-166, 388-397). *)
JoinReturns == \A t \in Threads :
    pc[t] = "joined" /\ pc[join_tid[t]] = "exited" ~> pc[t] # "joined" \/ program # "runs"

=============================================================================
