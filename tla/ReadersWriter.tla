--------------------------- MODULE ReadersWriter ---------------------------
(***************************************************************************)
(* What a read-write lock promises its callers (include/sthread.h, lines   *)
(* 96-108): any number of readers or one writer hold it, and nobody who    *)
(* asks for it waits for ever while the holders keep letting it go.        *)
(* RWLock.tla shows that the user-level implementation keeps this promise; *)
(* LogRW.tla is built on the promise and not on the implementation.        *)
(***************************************************************************)
EXTENDS Naturals, FiniteSets

CONSTANT Threads

VARIABLE st     \* st[t] is what the lock is to thread t

Status == {"out", "rwait", "wwait", "reading", "writing"}

Readers == {t \in Threads : st[t] = "reading"}
Writers == {t \in Threads : st[t] = "writing"}

TypeOK == st \in [Threads -> Status]

Init == st = [t \in Threads |-> "out"]

Move(t, from, to) ==
    /\ st[t] = from
    /\ st' = [st EXCEPT ![t] = to]

AskRead(t)  == Move(t, "out", "rwait")

AskWrite(t) == Move(t, "out", "wwait")

EnterRead(t) ==
    /\ Writers = {}
    /\ Move(t, "rwait", "reading")

EnterWrite(t) ==
    /\ Writers = {}
    /\ Readers = {}
    /\ Move(t, "wwait", "writing")

Leave(t) == Move(t, "reading", "out") \/ Move(t, "writing", "out")

Next == \E t \in Threads :
    AskRead(t) \/ AskWrite(t) \/ EnterRead(t) \/ EnterWrite(t) \/ Leave(t)

(***************************************************************************)
(* A waiting reader or writer is let in when the lock is free for it again *)
(* and again, and a holder leaves.                                         *)
(***************************************************************************)
Fairness == \A t \in Threads :
    /\ SF_st(EnterRead(t))
    /\ SF_st(EnterWrite(t))
    /\ WF_st(Leave(t))

SafetySpec == Init /\ [][Next]_st

Spec == SafetySpec /\ Fairness

(* A writer is alone with the lock. *)
Exclusion ==
    \A w \in Writers : Writers = {w} /\ Readers = {}

=============================================================================
