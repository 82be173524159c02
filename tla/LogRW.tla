-------------------------------- MODULE LogRW --------------------------------
(***************************************************************************)
(* The log-structured register store, src/logrw/logrw.c, on the blocks of  *)
(* src/logrw/block.c and on a read-write lock of which it assumes no more  *)
(* than ReadersWriter promises.                                            *)
(*                                                                         *)
(* A register lives in the block registo[r] of two arrays of NumBlocks     *)
(* blocks, numbered through: 0 .. NumBlocks-1 is array_1, the rest is      *)
(* array_2.  A write takes the next free block, livre, and makes the       *)
(* register point to it; when the array is full, the write first copies    *)
(* every register to the other array (the flip).                           *)
(*                                                                         *)
(* logrw_read takes the lock as a writer, logrw_write and                  *)
(* logrw_dump_register take it as readers: so two writes, or a write and a *)
(* dump, may interleave.  A step is one access to the shared structure,    *)
(* or the read of livre and the block_write or the assignment to registo   *)
(* that uses it.                                                           *)
(***************************************************************************)
EXTENDS Integers, FiniteSets

CONSTANTS
    Threads,
    WriterThreads,  \* the threads that call logrw_write; the others only read and dump
    num_reg, array_dim, bloco_dim,      \* the arguments of logrw_init
    Data,           \* what callers write
    Blank,          \* a block as block_new leaves it
    None            \* no call, no answer, no value

ASSUME LogAssumption ==
    /\ WriterThreads \subseteq Threads
    /\ num_reg \in Nat \ {0} /\ array_dim \in Nat /\ bloco_dim \in Nat \ {0}
    /\ num_reg < array_dim              \* otherwise logrw_init returns NULL

ASSUME ValueAssumption ==
    /\ Blank \notin Data
    /\ None \notin Data \cup {Blank, "ok", "failed"}
    /\ {"ok", "failed"} \cap (Data \cup {Blank}) = {}

VARIABLES
    PERMISSOES,         \* the read-write lock
    array,              \* array[1], array[2]: the blocks of array_1 and array_2
    livre, registo, array_activo,
    pc, req,            \* where each thread is, and the call it makes
    to, i, indice, buf, \* locals: array written to, loop index, block number, block
    sum,                \* local: livre + 1, computed and not yet stored
    ret,                \* what the call is about to return
    latest              \* history, not in the code: the last block that a write
                        \* made its register point to

log    == <<array, livre, registo, array_activo>>
locals == <<to, i, indice, buf, sum>>
vars   == <<PERMISSOES, log, pc, req, locals, ret, latest>>

NumBlocks == bloco_dim      \* block_new(bloco_dim, array_dim): blocks, then their size

Registers == 0 .. num_reg - 1
Blocks    == 0 .. NumBlocks - 1

Requests ==
    [op : {"read", "dump"}, reg : Registers, data : {None}]
    \cup [op : {"write"}, reg : Registers, data : Data]

ASSUME RequestAssumption == None \notin Requests

PCs == {"idle", "ask", "write", "full", "room", "behind", "flip", "clear", "copy", "store",
        "point", "add", "advance", "index", "fetch", "leave"}

Lock == INSTANCE ReadersWriter WITH st <- PERMISSOES

TypeOK ==
    /\ PERMISSOES \in [Threads -> Lock!Status]
    /\ array \in [{1, 2} -> [Blocks -> Data \cup {Blank}]]
    /\ livre \in Nat
    /\ registo \in [Registers -> Nat]
    /\ array_activo \in {0, 1}
    /\ pc \in [Threads -> PCs]
    /\ req \in [Threads -> Requests \cup {None}]
    /\ to \in [Threads -> {1, 2}]
    /\ i \in [Threads -> 0 .. num_reg]
    /\ indice \in [Threads -> Nat]
    /\ buf \in [Threads -> Data \cup {Blank, None}]
    /\ sum \in [Threads -> Nat]
    /\ ret \in [Threads -> Data \cup {Blank, None, "ok", "failed"}]
    /\ latest \in [Registers -> Data \cup {None}]

Init ==
    /\ Lock!Init
    /\ array = [a \in {1, 2} |-> [b \in Blocks |-> Blank]]
    /\ livre = 0 /\ array_activo = 0
    /\ registo = [r \in Registers |-> 0]
    /\ pc = [t \in Threads |-> "idle"]
    /\ req = [t \in Threads |-> None]
    /\ to = [t \in Threads |-> 1]
    /\ i = [t \in Threads |-> 0]
    /\ indice = [t \in Threads |-> 0]
    /\ buf = [t \in Threads |-> None]
    /\ sum = [t \in Threads |-> 0]
    /\ ret = [t \in Threads |-> None]
    /\ latest = [r \in Registers |-> None]

-----------------------------------------------------------------------------
Goto(t, next) == pc' = [pc EXCEPT ![t] = next]

Answer(t, a) ==
    /\ ret' = [ret EXCEPT ![t] = a]
    /\ Goto(t, "leave")

(* Block n of the log as a block number of array a.  The code's subtraction is
   unsigned: what falls below zero wraps and is as far out of range. *)
Place(a, n) == IF a = 1 THEN n ELSE n - NumBlocks

Other(a) == 3 - a

(* Where each call starts to work, once it has the lock. *)
Entry(op) == IF op = "write" THEN "write" ELSE "index"

Call(t) ==
    /\ pc[t] = "idle"
    /\ \E q \in Requests :
          /\ q.op = "write" => t \in WriterThreads
          /\ req' = [req EXCEPT ![t] = q]
          /\ IF q.op = "read" THEN Lock!AskWrite(t) ELSE Lock!AskRead(t)
    /\ Goto(t, "ask")
    /\ UNCHANGED <<log, locals, ret, latest>>

Enter(t) ==
    /\ pc[t] = "ask"
    /\ Lock!EnterRead(t) \/ Lock!EnterWrite(t)
    /\ Goto(t, Entry(req[t].op))
    /\ UNCHANGED <<log, req, locals, ret, latest>>

Return(t) ==
    /\ pc[t] = "leave"
    /\ Lock!Leave(t)
    /\ Goto(t, "idle")
    /\ req' = [req EXCEPT ![t] = None]
    /\ ret' = [ret EXCEPT ![t] = None]
    /\ buf' = [buf EXCEPT ![t] = None]
    /\ to' = [to EXCEPT ![t] = 1]
    /\ i' = [i EXCEPT ![t] = 0]
    /\ indice' = [indice EXCEPT ![t] = 0]
    /\ sum' = [sum EXCEPT ![t] = 0]
    /\ UNCHANGED <<log, latest>>

-----------------------------------------------------------------------------
(* logrw_write.  Rounds 0 .. num_reg-1 of the loop copy register i; the write
   that was asked for is made the same way and is called round num_reg.

   Which array it goes to is found by four tests of livre, one after the other, each of
   which reads it anew: two writers may each find it changed by the other. *)

GoesTo(t, a, next) == to' = [to EXCEPT ![t] = a] /\ Goto(t, next)

First(t) ==         \* array_1 is full: flip
    /\ pc[t] = "write"
    /\ \/ livre = NumBlocks /\ GoesTo(t, 2, "flip")
       \/ livre # NumBlocks /\ Goto(t, "full") /\ UNCHANGED to
    /\ UNCHANGED <<PERMISSOES, log, req, i, indice, buf, sum, ret, latest>>

WaitsForRoom(t) ==  \* mutation: the flip back to array_1 is missing
    /\ pc[t] = "full"
    /\ \/ livre = 2 * NumBlocks /\ UNCHANGED pc
       \/ livre # 2 * NumBlocks /\ Goto(t, "room")
    /\ UNCHANGED <<PERMISSOES, log, req, locals, ret, latest>>

Second(t) ==        \* array_2 is full: flip back
    /\ pc[t] = "full"
    /\ \/ livre = 2 * NumBlocks /\ GoesTo(t, 1, "flip")
       \/ livre # 2 * NumBlocks /\ Goto(t, "room") /\ UNCHANGED to
    /\ UNCHANGED <<PERMISSOES, log, req, i, indice, buf, sum, ret, latest>>

Straight(t, a) ==   \* room left in array a
    /\ GoesTo(t, a, "store")
    /\ i' = [i EXCEPT ![t] = num_reg]
    /\ buf' = [buf EXCEPT ![t] = req[t].data]

RoomInFirst(t) ==
    /\ pc[t] = "room"
    /\ \/ livre < NumBlocks /\ Straight(t, 1)
       \/ ~(livre < NumBlocks) /\ Goto(t, "behind") /\ UNCHANGED <<to, i, buf>>
    /\ UNCHANGED <<PERMISSOES, log, req, indice, sum, ret, latest>>

RoomInSecond(t) ==  \* none of the four tests may have held
    /\ pc[t] = "behind"
    /\ \/ livre > NumBlocks /\ Straight(t, 2) /\ UNCHANGED ret
       \/ ~(livre > NumBlocks) /\ Answer(t, "failed") /\ UNCHANGED <<to, i, buf>>
    /\ UNCHANGED <<PERMISSOES, log, req, indice, sum, latest>>

Flip(t) ==
    /\ pc[t] = "flip"
    /\ array_activo' = to[t] - 1
    /\ i' = [i EXCEPT ![t] = 0]
    /\ Goto(t, IF to[t] = 1 THEN "clear" ELSE "copy")
    /\ UNCHANGED <<PERMISSOES, array, livre, registo, req, to, indice, buf, sum, ret, latest>>

FlipKeepsFree(t) == \* mutation: livre is not set
    /\ pc[t] = "clear"
    /\ Goto(t, "copy")
    /\ UNCHANGED <<PERMISSOES, log, req, locals, ret, latest>>

Clear(t) ==         \* livre = 0
    /\ pc[t] = "clear"
    /\ livre' = 0
    /\ Goto(t, "copy")
    /\ UNCHANGED <<PERMISSOES, array, registo, array_activo, req, locals, ret, latest>>

NextRound(t) ==
    /\ i' = [i EXCEPT ![t] = @ + 1]
    /\ Goto(t, "copy")

CopiesStale(t) ==   \* mutation: the copies are taken from the array they go to
    /\ pc[t] = "copy"
    /\ Goto(t, "store")
    /\ buf' = [buf EXCEPT ![t] =
                 IF i[t] = num_reg THEN req[t].data
                 ELSE array[to[t]][Place(Other(to[t]), registo[i[t]])]]
    /\ UNCHANGED <<PERMISSOES, log, req, to, i, indice, sum, ret, latest>>

Copy(t) ==      \* block_read of round i; the last round takes the caller's block
    /\ pc[t] = "copy"
    /\ LET a == Other(to[t])  b == Place(Other(to[t]), registo[i[t]]) IN
       \/ /\ i[t] = num_reg
          /\ buf' = [buf EXCEPT ![t] = req[t].data]
          /\ Goto(t, "store")
          /\ UNCHANGED i
       \/ /\ i[t] < num_reg /\ b \in Blocks
          /\ buf' = [buf EXCEPT ![t] = array[a][b]]
          /\ Goto(t, "store")
          /\ UNCHANGED i
       \/ /\ i[t] < num_reg /\ b \notin Blocks
          /\ NextRound(t)
          /\ UNCHANGED buf
    /\ UNCHANGED <<PERMISSOES, log, req, to, indice, sum, ret, latest>>

Store(t) ==     \* block_write
    /\ pc[t] = "store"
    /\ LET b == Place(to[t], livre) IN
       \/ /\ b \in Blocks
          /\ array' = [array EXCEPT ![to[t]][b] = buf[t]]
          /\ Goto(t, "point")
          /\ UNCHANGED <<i, ret>>
       \/ /\ b \notin Blocks /\ i[t] < num_reg
          /\ NextRound(t)
          /\ UNCHANGED <<array, ret>>
       \/ /\ b \notin Blocks /\ i[t] = num_reg
          /\ Answer(t, "failed")
          /\ UNCHANGED <<array, i>>
    /\ UNCHANGED <<PERMISSOES, livre, registo, array_activo, req, to, indice, buf, sum, latest>>

PointsBehind(t) ==  \* mutation: registo is set as if livre had been advanced
    /\ pc[t] = "point"
    /\ \/ /\ i[t] < num_reg
          /\ registo' = [registo EXCEPT ![i[t]] = livre - 1]
          /\ UNCHANGED latest
       \/ /\ i[t] = num_reg
          /\ registo' = [registo EXCEPT ![req[t].reg] = livre - 1]
          /\ latest' = [latest EXCEPT ![req[t].reg] = req[t].data]
    /\ Goto(t, "add")
    /\ UNCHANGED <<PERMISSOES, array, livre, array_activo, req, locals, ret>>

Point(t) ==     \* registo[...] = livre
    /\ pc[t] = "point"
    /\ \/ /\ i[t] < num_reg
          /\ registo' = [registo EXCEPT ![i[t]] = livre]
          /\ UNCHANGED latest
       \/ /\ i[t] = num_reg
          /\ registo' = [registo EXCEPT ![req[t].reg] = livre]
          /\ latest' = [latest EXCEPT ![req[t].reg] = req[t].data]
    /\ Goto(t, "add")
    /\ UNCHANGED <<PERMISSOES, array, livre, array_activo, req, locals, ret>>

Add(t) ==       \* livre += 1 reads livre
    /\ pc[t] = "add"
    /\ sum' = [sum EXCEPT ![t] = livre + 1]
    /\ Goto(t, "advance")
    /\ UNCHANGED <<PERMISSOES, log, req, to, i, indice, buf, ret, latest>>

ForgetsToAdvance(t) ==          \* mutation: livre stays after the caller's write
    /\ pc[t] = "advance"
    /\ \/ i[t] < num_reg /\ livre' = sum[t] /\ NextRound(t) /\ UNCHANGED ret
       \/ i[t] = num_reg /\ Answer(t, "ok") /\ UNCHANGED <<i, livre>>
    /\ UNCHANGED <<PERMISSOES, array, registo, array_activo, req, to, indice, buf, sum, latest>>

Advance(t) ==   \* and stores it
    /\ pc[t] = "advance"
    /\ livre' = sum[t]
    /\ \/ i[t] < num_reg /\ NextRound(t) /\ UNCHANGED ret
       \/ i[t] = num_reg /\ Answer(t, "ok") /\ UNCHANGED i
    /\ UNCHANGED <<PERMISSOES, array, registo, array_activo, req, to, indice, buf, sum, latest>>

-----------------------------------------------------------------------------
(* logrw_read and logrw_dump_register *)

Index(t) ==
    /\ pc[t] = "index"
    /\ indice' = [indice EXCEPT ![t] = registo[req[t].reg]]
    /\ Goto(t, "fetch")
    /\ UNCHANGED <<PERMISSOES, log, req, to, i, buf, sum, ret, latest>>

(* In which array each of the two looks for block n. *)
ReadsOnePast(n) == IF n <= NumBlocks THEN 1 ELSE 2      \* mutation: off by one
ReadFrom(n) == IF n < NumBlocks THEN 1 ELSE 2
DumpFrom(n) == IF n <= NumBlocks THEN 1 ELSE 2

Fetch(t) ==
    /\ pc[t] = "fetch"
    /\ LET a == IF req[t].op = "read" THEN ReadFrom(indice[t]) ELSE DumpFrom(indice[t])
           b == Place(a, indice[t])
       IN  Answer(t, IF b \in Blocks THEN array[a][b] ELSE "failed")
    /\ UNCHANGED <<PERMISSOES, log, req, locals, latest>>

-----------------------------------------------------------------------------
Work(t) ==
    \/ First(t) \/ Second(t) \/ RoomInFirst(t) \/ RoomInSecond(t) \/ Flip(t) \/ Clear(t)
    \/ Copy(t) \/ Store(t) \/ Point(t) \/ Add(t) \/ Advance(t)
    \/ Index(t) \/ Fetch(t) \/ Return(t)

Next == \E t \in Threads : Call(t) \/ Enter(t) \/ Work(t)

SafetySpec == Init /\ [][Next]_vars

(***************************************************************************)
(* The lock lets in whoever it could let in again and again (ReadersWriter,*)
(* whose NoStarvation RWLock.tla checks), and a thread inside a call goes  *)
(* on when it is scheduled.                                                *)
(***************************************************************************)
Spec ==
    /\ SafetySpec
    /\ \A t \in Threads : SF_vars(Enter(t)) /\ WF_vars(Work(t))

-----------------------------------------------------------------------------
(* Correctness *)

Content(r) ==       \* the block that register r points to
    LET a == ReadFrom(registo[r]) IN array[a][Place(a, registo[r])]

(* A register that was written always holds the block of its last write, also
   in the middle of a flip and of another register's write: no write and no copy
   ever lands on a block that a register points to (logrw.c 152-250). *)
UpToDate == \A r \in Registers : latest[r] # None =>
    /\ registo[r] < 2 * NumBlocks
    /\ Content(r) = latest[r]

(* No two registers that were written share a block: when they do, one of the two
   has lost its contents to the other ("00:01 01:01 02:01" after four threads wrote
   the registers, tests/tests-1/tests-IA/Readme-tests-IA.txt 133-135). *)
OwnBlock == \A r, s \in Registers :
    latest[r] # None /\ latest[s] # None /\ registo[r] = registo[s] => r = s

(* Except between the two assignments of a flip back (logrw.c 193, 194), the next free
   block is in the array that the log says is active, or that array is full: livre never
   runs past the second array, where no write would ever succeed again. *)
FreeBlockInActive == (\A t \in Threads : pc[t] # "clear") =>
    /\ array_activo = 0 => livre <= NumBlocks
    /\ array_activo = 1 => NumBlocks <= livre /\ livre <= 2 * NumBlocks

(* The log is a register file: a read answers with the last write that took
   effect, and no write fails (include/logrw.h). *)
TookEffect(t) == pc[t] \in {"add", "advance", "leave"} /\ i[t] = num_reg

Registered == INSTANCE RegisterFile WITH
    content <- latest,
    req <- [t \in Threads |->
        IF req[t] # None /\ req[t].op \in {"read", "write"} THEN req[t] ELSE None],
    ans <- [t \in Threads |->
        IF req[t] = None THEN None
        ELSE CASE req[t].op = "dump" -> None
               [] req[t].op = "write" /\ ret[t] = None /\ TookEffect(t) -> "ok"
               [] OTHER -> ret[t]]

IsRegisterFile == Registered!SafetySpec

(* Every call returns: a read that waits for the lock behind writes and dumps, and a
   write that has to move every register first, also when another write changes livre
   between its tests or in the middle of its flip. *)
EveryCallReturns == \A t \in Threads : pc[t] = "ask" ~> pc[t] = "idle"

=============================================================================
