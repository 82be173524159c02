---------------------------- MODULE ThreadQueues ----------------------------
(***************************************************************************)
(* What the queues of src/sthread_lib/queue.h promise to the scheduler:    *)
(* each is a sequence of threads, first in, first out, and what is done to *)
(* one of them is not seen in another.                                     *)
(***************************************************************************)
EXTENDS Sequences

CONSTANTS Queues, Threads,
    None        \* no thread

VARIABLES
    content,    \* content[q]: the threads in queue q
    removed     \* the thread that the last call has returned

queuevars == <<content, removed>>

Init == content = [q \in Queues |-> << >>] /\ removed = None

Insert(q, t) ==
    /\ content' = [content EXCEPT ![q] = Append(@, t)]
    /\ removed' = None

Remove(q) ==
    /\ content[q] # << >>
    /\ removed' = Head(content[q])
    /\ content' = [content EXCEPT ![q] = Tail(@)]

Empty(q) ==     \* a queue is made, or given up
    /\ content' = [content EXCEPT ![q] = << >>]
    /\ removed' = None

Next == \E q \in Queues : Remove(q) \/ Empty(q) \/ \E t \in Threads : Insert(q, t)

Spec == Init /\ [][Next]_queuevars

=============================================================================
