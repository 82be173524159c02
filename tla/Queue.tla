------------------------------- MODULE Queue -------------------------------
(***************************************************************************)
(* The queues of threads, src/sthread_lib/queue.c: linked lists that share *)
(* one element, kept back by queue_remove for the next queue_insert of any *)
(* of them.  Each call is one step; the modules of the scheduler and of    *)
(* the locks take queues for sequences.                                    *)
(***************************************************************************)
EXTENDS Integers, Sequences

CONSTANTS
    Queues, Threads,
    Elements,       \* the addresses that malloc may give to a queue_element_t
    NULL

VARIABLES
    live,               \* the queues there are
    first, last,        \* the two fields of a queue_t
    thread, next,       \* the two fields of a queue_element_t
    empty_element_ptr,
    allocated,          \* the elements in use
    removed,            \* history: what the last call has returned, if a thread
    chain               \* history: the elements that belong to each queue, in order

lists == <<live, first, last>>
elements == <<thread, next, empty_element_ptr, allocated>>
vars == <<lists, elements, removed, chain>>

Pointers == Elements \cup {NULL}

TypeOK ==
    /\ live \subseteq Queues
    /\ first \in [Queues -> Pointers] /\ last \in [Queues -> Pointers]
    /\ thread \in [Elements -> Threads \cup {NULL}] /\ next \in [Elements -> Pointers]
    /\ empty_element_ptr \in Pointers
    /\ allocated \subseteq Elements
    /\ removed \in Threads \cup {NULL}
    /\ chain \in [Queues -> Seq(Elements)]

Init ==
    /\ live = {}
    /\ first = [q \in Queues |-> NULL] /\ last = [q \in Queues |-> NULL]
    /\ thread = [e \in Elements |-> NULL] /\ next = [e \in Elements |-> NULL]
    /\ empty_element_ptr = NULL
    /\ allocated = {}
    /\ removed = NULL
    /\ chain = [q \in Queues |-> << >>]

Members(s) == {s[n] : n \in DOMAIN s}

-----------------------------------------------------------------------------
CreateQueue(q) ==       \* an element that was kept back is lost
    /\ q \notin live
    /\ live' = live \cup {q}
    /\ first' = [first EXCEPT ![q] = NULL]
    /\ last' = [last EXCEPT ![q] = NULL]
    /\ empty_element_ptr' = NULL
    /\ removed' = NULL
    /\ chain' = [chain EXCEPT ![q] = << >>]
    /\ UNCHANGED <<thread, next, allocated>>

(* It frees the threads in the queue too (sthread_user_free, line 24): their memory is
   not the queues', and Sched's ScanDelete says what becomes of it. *)
DeleteQueue(q) ==
    /\ q \in live
    /\ live' = live \ {q}
    /\ allocated' = allocated \ Members(chain[q])
    /\ removed' = NULL
    /\ chain' = [chain EXCEPT ![q] = << >>]
    /\ UNCHANGED <<first, last, thread, next, empty_element_ptr>>

(* The element that was kept back, or a new one *)
NewElement(e) ==
    IF empty_element_ptr = NULL THEN e \notin allocated ELSE e = empty_element_ptr

Insert(q, t, e) ==
    /\ q \in live
    /\ NewElement(e)
    /\ empty_element_ptr' = NULL
    /\ allocated' = allocated \cup {e}
    /\ thread' = [thread EXCEPT ![e] = t]
    /\ IF first[q] = NULL
       THEN /\ first' = [first EXCEPT ![q] = e]
            /\ next' = [next EXCEPT ![e] = NULL]
       ELSE /\ next' = [next EXCEPT ![e] = NULL, ![last[q]] = e]
            /\ UNCHANGED first
    /\ last' = [last EXCEPT ![q] = e]
    /\ removed' = NULL
    /\ chain' = [chain EXCEPT ![q] = Append(@, e)]
    /\ UNCHANGED live

(* The callers look first whether the queue is empty, or crash on its NULL. *)
Remove(q) ==
    LET temp == first[q] IN
    /\ q \in live
    /\ temp # NULL
    /\ first' = [first EXCEPT ![q] = next[temp]]
    /\ removed' = thread[temp]
    /\ thread' = [thread EXCEPT ![temp] = NULL]
    /\ next' = [next EXCEPT ![temp] = NULL]
    /\ IF empty_element_ptr # NULL
       THEN allocated' = allocated \ {temp} /\ UNCHANGED empty_element_ptr
       ELSE empty_element_ptr' = temp /\ UNCHANGED allocated
    /\ chain' = [chain EXCEPT ![q] = Tail(@)]
    /\ UNCHANGED <<live, last>>

Next == \E q \in Queues :
    \/ CreateQueue(q) \/ DeleteQueue(q) \/ Remove(q)
    \/ \E t \in Threads, e \in Elements : Insert(q, t, e)

Spec == Init /\ [][Next]_vars

-----------------------------------------------------------------------------
(* Correctness *)

(* The pointers of a queue make up its chain; last is not meant when it is empty. *)
Linked == \A q \in live :
    LET c == chain[q] IN
    /\ first[q] = IF c = << >> THEN NULL ELSE c[1]
    /\ c # << >> => last[q] = c[Len(c)]
    /\ \A n \in DOMAIN c : next[c[n]] = IF n = Len(c) THEN NULL ELSE c[n + 1]

(* No element is in two places of the chains, nor in one of them while it is kept back,
   and all are allocated: none is used after it was freed. *)
Owned ==
    /\ \A q, r \in Queues : \A m \in DOMAIN chain[q], n \in DOMAIN chain[r] :
          chain[q][m] = chain[r][n] => q = r /\ m = n
    /\ \A q \in Queues : \A n \in DOMAIN chain[q] :
          chain[q][n] \in allocated /\ chain[q][n] # empty_element_ptr
    /\ empty_element_ptr \in allocated \cup {NULL}

IInv ==
    /\ TypeOK
    /\ \A q \in Queues \ live : chain[q] = << >>
    /\ Linked
    /\ Owned

Content == [q \in Queues |-> [n \in DOMAIN chain[q] |-> thread[chain[q][n]]]]

Abstract == INSTANCE ThreadQueues WITH None <- NULL, content <- Content

(* Whatever element goes from queue to queue, each is first in, first out, and none
   sees what is done to another (queue.c 31-82). *)
AreThreadQueues == Abstract!Spec

=============================================================================
