---------------------------- MODULE RegisterFile ----------------------------
(***************************************************************************)
(* What the log layer promises its callers (src/include/logrw.h and the    *)
(* comments of src/logrw/logrw.c): numbered registers, each a block that   *)
(* is read and written as a whole.  A write takes effect at one moment     *)
(* between its call and its return; a read answers with the last write of  *)
(* its register that took effect, or with anything when there was none     *)
(* ("any initial content is correct", tests/tests-1/tests-IA).             *)
(***************************************************************************)
EXTENDS Naturals

CONSTANTS Threads, Registers, Data, Blank, None

VARIABLES
    content,    \* content[r]: the last block written to r; None: never written
    req,        \* req[t]: the call t has made; None: no call
    ans         \* ans[t]: what that call returns; None: not decided yet

regvars == <<content, req, ans>>

Reads  == [op : {"read"}, reg : Registers, data : {None}]
Writes == [op : {"write"}, reg : Registers, data : Data]

TypeOK ==
    /\ content \in [Registers -> Data \cup {None}]
    /\ req \in [Threads -> Reads \cup Writes \cup {None}]
    /\ ans \in [Threads -> Data \cup {Blank, None, "ok"}]

Init ==
    /\ content = [r \in Registers |-> None]
    /\ req = [t \in Threads |-> None]
    /\ ans = [t \in Threads |-> None]

Call(t) ==
    /\ req[t] = None
    /\ \E q \in Reads \cup Writes : req' = [req EXCEPT ![t] = q]
    /\ UNCHANGED <<content, ans>>

Write(t) ==
    /\ req[t] \in Writes /\ ans[t] = None
    /\ content' = [content EXCEPT ![req[t].reg] = req[t].data]
    /\ ans' = [ans EXCEPT ![t] = "ok"]
    /\ UNCHANGED req

Answers(r) == IF content[r] = None THEN Data \cup {Blank} ELSE {content[r]}

Read(t) ==
    /\ req[t] \in Reads /\ ans[t] = None
    /\ \E v \in Answers(req[t].reg) : ans' = [ans EXCEPT ![t] = v]
    /\ UNCHANGED <<content, req>>

Return(t) ==
    /\ ans[t] # None
    /\ req' = [req EXCEPT ![t] = None]
    /\ ans' = [ans EXCEPT ![t] = None]
    /\ UNCHANGED content

Next == \E t \in Threads : Call(t) \/ Write(t) \/ Read(t) \/ Return(t)

SafetySpec == Init /\ [][Next]_regvars

(* Every call is answered and returns. *)
Spec ==
    /\ SafetySpec
    /\ \A t \in Threads : WF_regvars(Write(t) \/ Read(t)) /\ WF_regvars(Return(t))

=============================================================================
