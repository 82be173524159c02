--------------------------- MODULE OneDirectory ---------------------------
(***************************************************************************)
(* What a mounted sofs shows to programs (src/sofs/Readme.txt: there is    *)
(* the root directory only, and files can be written again): a directory   *)
(* of files, opened by name, read and written through handles.  Every call *)
(* gives an answer, and one that fails changes nothing.  Where a read or   *)
(* a write starts is counted modulo StartRange.                            *)
(***************************************************************************)
EXTENDS Naturals, Sequences, FiniteSets

CONSTANTS
    Names, Data, Handles,
    StartRange,
    None        \* no file of this name; no file open

VARIABLES
    content,    \* content[n]: the sequence of cells in the file of name n
    opened,     \* opened[h]: the name that handle h was opened with
    reply       \* the last call with its answer

dirvars == <<content, opened, reply>>

Files == {n \in Names : content[n] # None}

Init ==
    /\ content = [n \in Names |-> None]
    /\ opened = [h \in Handles |-> None]
    /\ reply = [call |-> "mount"]

Getattr ==
    /\ reply'.call = "getattr"
    /\ reply'.type = IF reply'.path = << >> THEN "dir"
                     ELSE IF reply'.path[1] \in Files THEN "file" ELSE "none"
    /\ reply'.type = "file" => reply'.size = Len(content[reply'.path[1]])
    /\ UNCHANGED <<content, opened>>

Readdir ==      \* every file once
    /\ reply'.call = "readdir"
    /\ Len(reply'.entries) = Cardinality(Files)
    /\ {reply'.entries[k] : k \in DOMAIN reply'.entries} = Files
    /\ UNCHANGED <<content, opened>>

Create(h, n) ==
    /\ reply' = [call |-> "create", handle |-> h, name |-> n, ok |-> TRUE]
    /\ opened[h] = None /\ n \notin Files
    /\ content' = [content EXCEPT ![n] = << >>]
    /\ opened' = [opened EXCEPT ![h] = n]

Open(h, n) ==
    /\ reply' = [call |-> "open", handle |-> h, name |-> n, ok |-> TRUE]
    /\ opened[h] = None /\ n \in Files
    /\ opened' = [opened EXCEPT ![h] = n]
    /\ UNCHANGED content

Read(h) ==      \* what there is from start on, count cells at most
    /\ reply'.call = "read" /\ reply'.handle = h /\ opened[h] # None
    /\ LET c == content[opened[h]]
           start == reply'.start % StartRange
           end == IF start + reply'.count < Len(c) THEN start + reply'.count ELSE Len(c)
       IN  reply'.data = [k \in 1 .. (IF start < end THEN end - start ELSE 0) |-> c[start + k]]
    /\ UNCHANGED <<content, opened>>

(* A write that starts past the end is made at the end. *)
Write(h) ==
    /\ reply'.call = "write" /\ reply'.handle = h /\ reply'.ok /\ opened[h] # None
    /\ LET c == content[opened[h]]
           start == reply'.start % StartRange
           n == IF start > Len(c) THEN Len(c) ELSE start
           d == reply'.data
       IN  content' = [content EXCEPT ![opened[h]] =
              [k \in 1 .. (IF Len(c) < n + Len(d) THEN n + Len(d) ELSE Len(c)) |->
                  IF k > n /\ k <= n + Len(d) THEN d[k - n] ELSE c[k]]]
    /\ UNCHANGED opened

(* The new size that is asked for is not looked at: the file is empty afterwards. *)
Truncate(n) ==
    /\ reply' = [call |-> "truncate", name |-> n, ok |-> TRUE]
    /\ n \in Files
    /\ content' = [content EXCEPT ![n] = << >>]
    /\ UNCHANGED opened

Release(h) ==
    /\ reply' = [call |-> "release"]
    /\ opened' = [opened EXCEPT ![h] = None]
    /\ UNCHANGED content

Fail ==         \* a call may fail for lack of space, or because the name is missing
    /\ reply'.call \in {"create", "open", "write", "truncate"} /\ ~reply'.ok
    /\ reply'.call \in {"open", "truncate"} => reply'.name \notin Files
    /\ UNCHANGED <<content, opened>>

Accept == reply' = [call |-> "accepted"] /\ UNCHANGED <<content, opened>>

Next ==
    \/ Getattr \/ Readdir \/ Fail \/ Accept
    \/ \E n \in Names : Truncate(n)
    \/ \E h \in Handles : Read(h) \/ Write(h) \/ Release(h)
    \/ \E h \in Handles, n \in Names : Create(h, n) \/ Open(h, n)

Spec == Init /\ [][Next]_dirvars

=============================================================================
