----------------------------- MODULE FileStore -----------------------------
(***************************************************************************)
(* What the file system promises its callers (src/include/fs.h, lines      *)
(* 97-214): paths name directories and files, and a file is a sequence of  *)
(* cells.  A call that fails changes nothing.                              *)
(***************************************************************************)
EXTENDS Naturals, Sequences

CONSTANTS
    Paths,      \* sequences of names; << >>, the root, is not one of them
    Data,
    None        \* no write

VARIABLES
    store,      \* store[p]: what path p names
    asked       \* the start and the data of the last call, if it was a write

storevars == <<store, asked>>

Absent    == [kind |-> "absent", content |-> << >>]
Directory == [kind |-> "dir", content |-> << >>]
File(c)   == [kind |-> "file", content |-> c]

TypeOK == \A p \in Paths :
    \/ store[p] \in {Absent, Directory}
    \/ store[p].kind = "file" /\ store[p].content \in Seq(Data)

Init == store = [p \in Paths |-> Absent] /\ asked = None

Parent(p) == SubSeq(p, 1, Len(p) - 1)

InDirectory(p) == Parent(p) = << >> \/ store[Parent(p)] = Directory

Add(p, object) ==
    /\ asked' = None
    /\ store[p] = Absent /\ InDirectory(p)
    /\ store' = [store EXCEPT ![p] = object]

Create(p) == Add(p, File(<< >>))

Mkdir(p) == Add(p, Directory)

(* s with d in place of what follows its first n elements, as far as d goes *)
Overwrite(s, n, d) ==
    [k \in 1 .. (IF Len(s) < n + Len(d) THEN n + Len(d) ELSE Len(s)) |->
        IF k > n /\ k <= n + Len(d) THEN d[k - n] ELSE s[k]]

(* A write that starts past the end is made at the end. *)
Write(p) ==
    /\ asked' # None /\ asked'.start \in Nat /\ asked'.data \in Seq(Data)
    /\ store[p].kind = "file"
    /\ LET end == Len(store[p].content)
           n   == IF asked'.start > end THEN end ELSE asked'.start
       IN  store' = [store EXCEPT ![p].content = Overwrite(@, n, asked'.data)]

Truncate(p) ==
    /\ asked' = None
    /\ store[p].kind = "file"
    /\ store' = [store EXCEPT ![p].content = << >>]

Refuse == asked' = None /\ UNCHANGED store

Next == Refuse \/ \E p \in Paths : Create(p) \/ Mkdir(p) \/ Write(p) \/ Truncate(p)

Spec == Init /\ [][Next]_storevars

=============================================================================
