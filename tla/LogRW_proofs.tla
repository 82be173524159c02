---------------------------- MODULE LogRW_proofs ----------------------------
(***************************************************************************)
(* Proofs about LogRW: how the log uses the read-write lock, for any       *)
(* number of writers; and for one writer, any number of readers, and       *)
(* arrays of any size, that the log is a register file.                    *)
(***************************************************************************)
EXTENDS LogRW, TLAPS

-----------------------------------------------------------------------------
(* The calls and the lock, for any number of writers *)

TestPCs == {"write", "full", "room", "behind"}
CopyPCs == {"clear", "copy", "store", "point", "add", "advance"}
WritePCs == TestPCs \cup {"flip"} \cup CopyPCs

(* What a thread has in hand at each statement: the call it is in, its answer only when
   that is over, and the lock in the mode its call takes it in. *)
CallInv(t) ==
    /\ pc[t] = "idle" <=> req[t] = None
    /\ req[t] # None /\ req[t].op = "write" => t \in WriterThreads
    /\ pc[t] \in WritePCs => req[t].op = "write"
    /\ pc[t] \in {"index", "fetch"} => req[t].op # "write"
    /\ pc[t] = "store" => buf[t] \in Data \cup {Blank}
    /\ ret[t] # None <=> pc[t] = "leave"
    /\ pc[t] = "idle" => PERMISSOES[t] = "out"
    /\ pc[t] = "ask" => PERMISSOES[t] = IF req[t].op = "read" THEN "wwait" ELSE "rwait"
    /\ pc[t] \notin {"idle", "ask"} =>
           PERMISSOES[t] = IF req[t].op = "read" THEN "writing" ELSE "reading"

BaseInv == TypeOK /\ (\A t \in Threads : CallInv(t)) /\ Lock!Exclusion

-----------------------------------------------------------------------------
(* The log, with one writer w *)

Base == IF array_activo = 0 THEN 0 ELSE NumBlocks   \* the first block of the active array

OtherBase == IF array_activo = 0 THEN NumBlocks ELSE 0

Copying(w) == pc[w] \in CopyPCs

(* What the tests that a write has made have told it still holds. *)
TestsInv(w) ==
    /\ pc[w] = "full" => livre # NumBlocks
    /\ pc[w] = "room" => livre # NumBlocks /\ livre # 2 * NumBlocks
    /\ pc[w] = "behind" => livre > NumBlocks /\ livre # 2 * NumBlocks
    /\ pc[w] = "flip" => \/ to[w] = 2 /\ livre = NumBlocks
                         \/ to[w] = 1 /\ livre = 2 * NumBlocks

(* livre is in the active array or just behind it, and a write works there. *)
FreeInv(w) ==
    /\ pc[w] # "clear" => Base <= livre /\ livre <= Base + NumBlocks
    /\ pc[w] = "clear" => array_activo = 0
    /\ Copying(w) => to[w] = array_activo + 1
    /\ pc[w] \in {"point", "add", "advance"} => livre < Base + NumBlocks
    /\ pc[w] = "advance" => sum[w] = livre + 1
    /\ TestsInv(w)

(* Round k of a flip writes block k; a flip leaves num_reg blocks taken, so that the next
   one finds the array it is in by livre alone. *)
RoundsInv(w) ==
    /\ pc[w] = "copy" => livre = Base + i[w]
    /\ pc[w] = "clear" => i[w] = 0
    /\ Copying(w) /\ pc[w] # "clear" /\ i[w] < num_reg => livre = Base + i[w]
    /\ array_activo = 1 /\ ~(Copying(w) /\ i[w] < num_reg) => livre >= NumBlocks + num_reg
    /\ num_reg < NumBlocks /\ pc[w] = "store" => livre < Base + NumBlocks

(* The registers below Moved are in the active array, and those that were written below
   Top; the others are still in the array the flip comes from. *)
Moved(w) ==
    IF Copying(w) THEN IF pc[w] \in {"add", "advance"} THEN i[w] + 1 ELSE i[w] ELSE num_reg

Top(w) == IF pc[w] \in {"add", "advance"} THEN livre + 1 ELSE livre

WhereInv(w) == \A r \in Registers :
    /\ r < Moved(w) => /\ Base <= registo[r] /\ registo[r] < Base + NumBlocks
                       /\ latest[r] # None => registo[r] < Top(w)
    /\ r >= Moved(w) => OtherBase <= registo[r] /\ registo[r] < OtherBase + NumBlocks

(* What the round in progress has in hand: the last block written to the register it
   moves, or the caller's. *)
RoundData(w, v) ==
    /\ i[w] < num_reg /\ latest[i[w]] # None => v = latest[i[w]]
    /\ i[w] = num_reg => v = req[w].data

CopiesInv(w) ==
    /\ pc[w] = "store" => RoundData(w, buf[w])
    /\ pc[w] = "point" => RoundData(w, array[to[w]][livre - Base])

Holds(r) == latest[r] # None => Content(r) = latest[r]

LogInv(w) ==
    /\ RoundsInv(w) /\ WhereInv(w) /\ CopiesInv(w)
    /\ \A r \in Registers : Holds(r)
    /\ OwnBlock

-----------------------------------------------------------------------------
(* The calls and the lock: each step keeps BaseInv. *)

(* What CallInv says of a thread does not depend on what the others do. *)
LEMMA OthersKeepCall ==
    ASSUME NEW u \in Threads, CallInv(u),
           pc'[u] = pc[u], req'[u] = req[u], buf'[u] = buf[u], ret'[u] = ret[u],
           PERMISSOES'[u] = PERMISSOES[u]
    PROVE  CallInv(u)'
BY DEF CallInv, WritePCs, TestPCs, CopyPCs

(* A request is not "no request", and has an operation. *)
LEMMA RequestShape ==
    ASSUME NEW q \in Requests
    PROVE  q # None /\ q.op \in {"read", "write", "dump"} /\ q.reg \in Registers
           /\ (q.op = "write" => q.data \in Data)
BY RequestAssumption DEF Requests

(* The lock is asked for when a call begins. *)
LEMMA CallKeepsBase ==
    ASSUME BaseInv, NEW t \in Threads, Call(t)
    PROVE  BaseInv'
<1>1. PICK q \in Requests :
        /\ q.op = "write" => t \in WriterThreads
        /\ req' = [req EXCEPT ![t] = q]
        /\ IF q.op = "read" THEN Lock!AskWrite(t) ELSE Lock!AskRead(t)
    BY DEF Call
<1> DEFINE s == IF q.op = "read" THEN "wwait" ELSE "rwait"
<1>2. /\ pc[t] = "idle" /\ pc' = [pc EXCEPT ![t] = "ask"]
      /\ PERMISSOES' = [PERMISSOES EXCEPT ![t] = s]
      /\ UNCHANGED <<array, livre, registo, array_activo, to, i, indice, buf, sum, ret, latest>>
    BY <1>1 DEF Call, Goto, Lock!AskWrite, Lock!AskRead, Lock!Move, log, locals
<1>3. q # None /\ q.op \in {"read", "write", "dump"}
    BY RequestShape
<1>4. TypeOK'
    BY <1>1, <1>2 DEF BaseInv, TypeOK, PCs, Lock!Status
<1>5. ASSUME NEW u \in Threads PROVE CallInv(u)'
  <2>1. CASE u = t
      BY <1>1, <1>2, <1>3, <2>1 DEF BaseInv, TypeOK, CallInv, WritePCs, TestPCs, CopyPCs
  <2>2. CASE u # t
      BY <1>1, <1>2, <2>2, OthersKeepCall DEF BaseInv, TypeOK
  <2>3. QED
      BY <2>1, <2>2
<1>6. Lock!Exclusion'
    BY <1>2 DEF BaseInv, TypeOK, Lock!Exclusion, Lock!Writers, Lock!Readers
<1>7. QED
    BY <1>4, <1>5, <1>6 DEF BaseInv

(* The lock is held, in the mode it was asked for, when the work begins. *)
LEMMA EnterKeepsBase ==
    ASSUME BaseInv, NEW t \in Threads, Enter(t)
    PROVE  BaseInv'
<1> DEFINE s == IF req[t].op = "read" THEN "writing" ELSE "reading"
<1>1. /\ pc[t] = "ask" /\ req[t] # None /\ req[t] \in Requests
      /\ PERMISSOES[t] = IF req[t].op = "read" THEN "wwait" ELSE "rwait"
    BY DEF Enter, BaseInv, CallInv, TypeOK
<1>2. req[t].op \in {"read", "write", "dump"}
    BY <1>1, RequestShape
<1>3. /\ pc' = [pc EXCEPT ![t] = Entry(req[t].op)]
      /\ UNCHANGED <<array, livre, registo, array_activo, req, to, i, indice, buf, sum, ret, latest>>
    BY DEF Enter, Goto, log, locals
<1>4. /\ PERMISSOES' = [PERMISSOES EXCEPT ![t] = s]
      /\ Lock!Writers = {}
      /\ s = "writing" => Lock!Readers = {}
    BY <1>1 DEF Enter, Lock!EnterRead, Lock!EnterWrite, Lock!Move
<1>5. TypeOK'
    BY <1>2, <1>3, <1>4 DEF BaseInv, TypeOK, PCs, Lock!Status, Entry
<1>6. ASSUME NEW u \in Threads PROVE CallInv(u)'
  <2>1. CASE u = t
      BY <1>1, <1>2, <1>3, <1>4, <2>1 DEF BaseInv, TypeOK, CallInv, WritePCs, TestPCs, CopyPCs, Entry
  <2>2. CASE u # t
      BY <1>3, <1>4, <2>2, OthersKeepCall DEF BaseInv, TypeOK
  <2>3. QED
      BY <2>1, <2>2
<1>7. Lock!Exclusion'
    BY <1>4 DEF BaseInv, TypeOK, Lock!Exclusion, Lock!Writers, Lock!Readers
<1>8. QED
    BY <1>5, <1>6, <1>7 DEF BaseInv

(* The lock is given back when the call returns. *)
LEMMA ReturnKeepsBase ==
    ASSUME BaseInv, NEW t \in Threads, Return(t)
    PROVE  BaseInv'
<1>1. /\ pc[t] = "leave" /\ pc' = [pc EXCEPT ![t] = "idle"]
      /\ PERMISSOES' = [PERMISSOES EXCEPT ![t] = "out"]
      /\ req' = [req EXCEPT ![t] = None]
      /\ ret' = [ret EXCEPT ![t] = None]
      /\ buf' = [buf EXCEPT ![t] = None]
      /\ to' = [to EXCEPT ![t] = 1]
      /\ i' = [i EXCEPT ![t] = 0]
      /\ indice' = [indice EXCEPT ![t] = 0]
      /\ sum' = [sum EXCEPT ![t] = 0]
      /\ UNCHANGED <<array, livre, registo, array_activo, latest>>
    BY DEF Return, Goto, Lock!Leave, Lock!Move, log
<1>2. TypeOK'
    BY <1>1, LogAssumption DEF BaseInv, TypeOK, PCs, Lock!Status
<1>3. ASSUME NEW u \in Threads PROVE CallInv(u)'
  <2>1. CASE u = t
      BY <1>1, <2>1 DEF BaseInv, TypeOK, CallInv, WritePCs, TestPCs, CopyPCs
  <2>2. CASE u # t
      BY <1>1, <2>2, OthersKeepCall DEF BaseInv, TypeOK
  <2>3. QED
      BY <2>1, <2>2
<1>4. Lock!Exclusion'
    BY <1>1 DEF BaseInv, TypeOK, Lock!Exclusion, Lock!Writers, Lock!Readers
<1>5. QED
    BY <1>2, <1>3, <1>4 DEF BaseInv

(* Nothing else touches the lock. *)
LEMMA WorkKeepsLock ==
    ASSUME BaseInv, NEW t \in Threads,
           PERMISSOES' = PERMISSOES, req' = req, TypeOK',
           \A u \in Threads \ {t} : pc'[u] = pc[u] /\ buf'[u] = buf[u] /\ ret'[u] = ret[u],
           pc[t] \notin {"idle", "ask"}, pc'[t] \notin {"idle", "ask"},
           pc'[t] \in WritePCs => req[t].op = "write",
           pc'[t] \in {"index", "fetch"} => req[t].op # "write",
           pc'[t] = "store" => buf'[t] \in Data \cup {Blank},
           ret'[t] # None <=> pc'[t] = "leave"
    PROVE  BaseInv'
<1>1. CallInv(t)'
    BY DEF BaseInv, CallInv
<1>2. ASSUME NEW u \in Threads \ {t} PROVE CallInv(u)'
    BY <1>2, OthersKeepCall DEF BaseInv
<1>3. Lock!Exclusion'
    BY DEF BaseInv, Lock!Exclusion, Lock!Writers, Lock!Readers
<1>4. QED
    BY <1>1, <1>2, <1>3 DEF BaseInv

(* What a thread that works on a write or on a read has in its request. *)
LEMMA RequestInHand ==
    ASSUME BaseInv, NEW t \in Threads, pc[t] # "idle"
    PROVE  /\ req[t] \in Requests /\ req[t] # None /\ req[t].reg \in Registers
           /\ req[t].op = "write" => req[t].data \in Data
BY RequestShape DEF BaseInv, CallInv, TypeOK

LEMMA TestKeepsBase ==
    ASSUME BaseInv, NEW t \in Threads,
           First(t) \/ Second(t) \/ RoomInFirst(t) \/ RoomInSecond(t)
    PROVE  BaseInv'
<1>1. /\ pc[t] \in TestPCs /\ req[t].op = "write" /\ req[t].data \in Data
      /\ ret[t] = None
      /\ UNCHANGED <<PERMISSOES, array, livre, registo, array_activo, req, indice, sum, latest>>
  <2>1. pc[t] \in TestPCs
      BY DEF First, Second, RoomInFirst, RoomInSecond, TestPCs
  <2>2. QED
      BY <2>1, RequestInHand DEF First, Second, RoomInFirst, RoomInSecond, log, locals, TestPCs,
                                 BaseInv, CallInv, WritePCs
<1>2. ASSUME NEW a \in {1, 2}, to' = [to EXCEPT ![t] = a] \/ to' = to,
             NEW next \in {"flip", "full", "room", "behind"}, pc' = [pc EXCEPT ![t] = next],
             UNCHANGED <<i, buf, ret>>
      PROVE  BaseInv'
  <2>1. TypeOK'
      BY <1>1, <1>2 DEF BaseInv, TypeOK, PCs
  <2>2. QED
      BY <1>1, <1>2, <2>1, WorkKeepsLock
         DEF BaseInv, TypeOK, CallInv, WritePCs, TestPCs, CopyPCs
<1>3. ASSUME NEW a \in {1, 2}, Straight(t, a), ret' = ret
      PROVE  BaseInv'
  <2>1. /\ buf' = [buf EXCEPT ![t] = req[t].data]
        /\ to' = [to EXCEPT ![t] = a] /\ i' = [i EXCEPT ![t] = num_reg]
        /\ pc' = [pc EXCEPT ![t] = "store"]
      BY <1>3 DEF Straight, GoesTo, Goto
  <2>2. TypeOK'
      BY <1>1, <1>3, <2>1, LogAssumption DEF BaseInv, TypeOK, PCs
  <2>3. QED
      BY <1>1, <1>3, <2>1, <2>2, WorkKeepsLock
         DEF BaseInv, TypeOK, CallInv, WritePCs, TestPCs, CopyPCs
<1>4. ASSUME Answer(t, "failed"), UNCHANGED <<to, i, buf>>
      PROVE  BaseInv'
  <2>1. ret' = [ret EXCEPT ![t] = "failed"] /\ pc' = [pc EXCEPT ![t] = "leave"]
      BY <1>4 DEF Answer, Goto
  <2>2. TypeOK'
      BY <1>1, <1>4, <2>1 DEF BaseInv, TypeOK, PCs
  <2>3. QED
      BY <1>1, <1>4, <2>1, <2>2, WorkKeepsLock, ValueAssumption
         DEF BaseInv, TypeOK, CallInv, WritePCs, TestPCs, CopyPCs
<1>5. CASE First(t)
    BY <1>2, <1>5 DEF First, GoesTo, Goto
<1>6. CASE Second(t)
    BY <1>2, <1>6 DEF Second, GoesTo, Goto
<1>7. CASE RoomInFirst(t)
    BY <1>2, <1>3, <1>7 DEF RoomInFirst, Goto
<1>8. CASE RoomInSecond(t)
    BY <1>3, <1>4, <1>8 DEF RoomInSecond
<1>9. QED
    BY <1>5, <1>6, <1>7, <1>8

LEMMA FlipKeepsBase ==
    ASSUME BaseInv, NEW t \in Threads, Flip(t) \/ Clear(t)
    PROVE  BaseInv'
<1>1. /\ pc[t] \in {"flip", "clear"} /\ req[t].op = "write"
      /\ UNCHANGED <<PERMISSOES, array, registo, req, to, indice, buf, sum, ret, latest>>
    BY DEF Flip, Clear, locals, BaseInv, CallInv, WritePCs, CopyPCs
<1>2. to[t] \in {1, 2}
    BY DEF BaseInv, TypeOK
<1>3. /\ array_activo' \in {0, 1} /\ livre' \in Nat
      /\ i' \in [Threads -> 0 .. num_reg]
    BY <1>2, LogAssumption DEF Flip, Clear, locals, BaseInv, TypeOK
<1>4. PICK next \in {"clear", "copy"} : pc' = [pc EXCEPT ![t] = next]
    BY DEF Flip, Clear, Goto
<1>5. TypeOK'
    BY <1>1, <1>3, <1>4 DEF BaseInv, TypeOK, PCs
<1>6. QED
    BY <1>1, <1>4, <1>5, WorkKeepsLock
       DEF BaseInv, TypeOK, CallInv, WritePCs, TestPCs, CopyPCs

LEMMA CopyKeepsBase ==
    ASSUME BaseInv, NEW t \in Threads, Copy(t)
    PROVE  BaseInv'
<1>1. /\ pc[t] = "copy" /\ req[t].op = "write" /\ req[t].data \in Data
      /\ PERMISSOES' = PERMISSOES /\ req' = req /\ ret' = ret /\ latest' = latest
      /\ array' = array /\ registo' = registo /\ indice' = indice /\ to' = to
      /\ livre' = livre /\ array_activo' = array_activo /\ sum' = sum
    BY RequestInHand DEF Copy, log, BaseInv, CallInv, WritePCs, CopyPCs
<1>2. i[t] \in 0 .. num_reg /\ to[t] \in {1, 2} /\ Other(to[t]) \in {1, 2}
    BY DEF BaseInv, TypeOK, Other
<1>3. CASE \E v \in Data \cup {Blank} : buf' = [buf EXCEPT ![t] = v]
                                    /\ pc' = [pc EXCEPT ![t] = "store"] /\ i' = i
  <2>1. TypeOK'
      BY <1>1, <1>3 DEF BaseInv, TypeOK, PCs
  <2>2. QED
      BY <1>1, <1>3, <2>1, WorkKeepsLock DEF BaseInv, TypeOK, CallInv, WritePCs, TestPCs, CopyPCs
<1>4. CASE i[t] < num_reg /\ i' = [i EXCEPT ![t] = @ + 1]
           /\ pc' = [pc EXCEPT ![t] = "copy"] /\ buf' = buf
  <2>1. TypeOK'
      BY <1>1, <1>2, <1>4, LogAssumption DEF BaseInv, TypeOK, PCs
  <2>2. QED
      BY <1>1, <1>4, <2>1, WorkKeepsLock DEF BaseInv, TypeOK, CallInv, WritePCs, TestPCs, CopyPCs
<1>5. QED
    BY <1>1, <1>2, <1>3, <1>4 DEF Copy, NextRound, Goto, BaseInv, TypeOK

LEMMA StoreKeepsBase ==
    ASSUME BaseInv, NEW t \in Threads, Store(t)
    PROVE  BaseInv'
<1> DEFINE b == Place(to[t], livre)
<1>1. /\ pc[t] = "store" /\ req[t].op = "write" /\ buf[t] \in Data \cup {Blank}
      /\ PERMISSOES' = PERMISSOES /\ req' = req /\ latest' = latest
      /\ registo' = registo /\ indice' = indice /\ to' = to /\ buf' = buf
      /\ livre' = livre /\ array_activo' = array_activo /\ sum' = sum
    BY DEF Store, BaseInv, CallInv, WritePCs, CopyPCs
<1>2. i[t] \in 0 .. num_reg /\ to[t] \in {1, 2}
    BY DEF BaseInv, TypeOK
<1> HIDE DEF b
<1>3. CASE /\ b \in Blocks
           /\ array' = [array EXCEPT ![to[t]][b] = buf[t]]
           /\ pc' = [pc EXCEPT ![t] = "point"] /\ i' = i /\ ret' = ret
  <2>1. array' \in [{1, 2} -> [Blocks -> Data \cup {Blank}]]
      BY <1>1, <1>2, <1>3 DEF BaseInv, TypeOK
  <2>2. TypeOK'
      BY <1>1, <1>3, <2>1 DEF BaseInv, TypeOK, PCs
  <2>3. QED
      BY <1>1, <1>3, <2>2, WorkKeepsLock DEF BaseInv, TypeOK, CallInv, WritePCs, TestPCs, CopyPCs
<1>4. CASE /\ i[t] < num_reg /\ i' = [i EXCEPT ![t] = @ + 1]
           /\ pc' = [pc EXCEPT ![t] = "copy"] /\ array' = array /\ ret' = ret
  <2>1. TypeOK'
      BY <1>1, <1>2, <1>4, LogAssumption DEF BaseInv, TypeOK, PCs
  <2>2. QED
      BY <1>1, <1>4, <2>1, WorkKeepsLock DEF BaseInv, TypeOK, CallInv, WritePCs, TestPCs, CopyPCs
<1>5. CASE /\ ret' = [ret EXCEPT ![t] = "failed"]
           /\ pc' = [pc EXCEPT ![t] = "leave"] /\ array' = array /\ i' = i
  <2>1. TypeOK'
      BY <1>1, <1>5 DEF BaseInv, TypeOK, PCs
  <2>2. QED
      BY <1>1, <1>5, <2>1, WorkKeepsLock, ValueAssumption DEF BaseInv, TypeOK, CallInv, WritePCs, TestPCs, CopyPCs
<1>6. QED
    BY <1>1, <1>2, <1>3, <1>4, <1>5 DEF Store, NextRound, Answer, Goto, b

LEMMA PointKeepsBase ==
    ASSUME BaseInv, NEW t \in Threads, Point(t)
    PROVE  BaseInv'
<1>1. /\ pc[t] = "point" /\ req[t].op = "write" /\ req[t].data \in Data
      /\ req[t].reg \in Registers
      /\ pc' = [pc EXCEPT ![t] = "add"]
      /\ UNCHANGED <<PERMISSOES, array, livre, array_activo, req, to, i, indice, buf, sum, ret>>
    BY RequestInHand DEF Point, Goto, BaseInv, CallInv, WritePCs, CopyPCs, locals
<1>2. registo' \in [Registers -> Nat] /\ latest' \in [Registers -> Data \cup {None}]
    BY <1>1 DEF Point, BaseInv, TypeOK
<1>3. TypeOK'
    BY <1>1, <1>2 DEF BaseInv, TypeOK, PCs
<1>4. QED
    BY <1>1, <1>3, WorkKeepsLock DEF BaseInv, TypeOK, CallInv, WritePCs, TestPCs, CopyPCs

LEMMA AddKeepsBase ==
    ASSUME BaseInv, NEW t \in Threads, Add(t)
    PROVE  BaseInv'
<1>1. /\ pc[t] = "add" /\ req[t].op = "write"
      /\ sum' = [sum EXCEPT ![t] = livre + 1]
      /\ pc' = [pc EXCEPT ![t] = "advance"]
      /\ UNCHANGED <<PERMISSOES, array, livre, registo, array_activo, req, to, i, indice, buf,
                     ret, latest>>
    BY DEF Add, Goto, log, BaseInv, CallInv, WritePCs, CopyPCs
<1>2. TypeOK'
    BY <1>1 DEF BaseInv, TypeOK, PCs
<1>3. QED
    BY <1>1, <1>2, WorkKeepsLock DEF BaseInv, TypeOK, CallInv, WritePCs, TestPCs, CopyPCs

LEMMA AdvanceKeepsBase ==
    ASSUME BaseInv, NEW t \in Threads, Advance(t)
    PROVE  BaseInv'
<1>1. /\ pc[t] = "advance" /\ req[t].op = "write" /\ livre' = sum[t]
      /\ UNCHANGED <<PERMISSOES, array, registo, array_activo, req, to, indice, buf, sum, latest>>
    BY DEF Advance, BaseInv, CallInv, WritePCs, CopyPCs
<1>2. i[t] \in 0 .. num_reg
    BY DEF BaseInv, TypeOK
<1>3. CASE /\ i[t] < num_reg /\ i' = [i EXCEPT ![t] = @ + 1]
           /\ pc' = [pc EXCEPT ![t] = "copy"] /\ ret' = ret
  <2>1. TypeOK'
      BY <1>1, <1>2, <1>3, LogAssumption DEF BaseInv, TypeOK, PCs
  <2>2. QED
      BY <1>1, <1>3, <2>1, WorkKeepsLock DEF BaseInv, TypeOK, CallInv, WritePCs, TestPCs, CopyPCs
<1>4. CASE /\ ret' = [ret EXCEPT ![t] = "ok"]
           /\ pc' = [pc EXCEPT ![t] = "leave"] /\ i' = i
  <2>1. TypeOK'
      BY <1>1, <1>4 DEF BaseInv, TypeOK, PCs
  <2>2. QED
      BY <1>1, <1>4, <2>1, WorkKeepsLock, ValueAssumption DEF BaseInv, TypeOK, CallInv, WritePCs, TestPCs, CopyPCs
<1>5. QED
    BY <1>3, <1>4 DEF Advance, NextRound, Answer, Goto

LEMMA IndexKeepsBase ==
    ASSUME BaseInv, NEW t \in Threads, Index(t)
    PROVE  BaseInv'
<1>1. /\ pc[t] = "index" /\ req[t].op # "write" /\ req[t].reg \in Registers
      /\ indice' = [indice EXCEPT ![t] = registo[req[t].reg]]
      /\ pc' = [pc EXCEPT ![t] = "fetch"]
      /\ UNCHANGED <<PERMISSOES, array, livre, registo, array_activo, req, to, i, buf, sum, ret,
                     latest>>
    BY RequestInHand DEF Index, Goto, BaseInv, CallInv, log
<1>2. TypeOK'
    BY <1>1 DEF BaseInv, TypeOK, PCs
<1>3. QED
    BY <1>1, <1>2, WorkKeepsLock DEF BaseInv, TypeOK, CallInv, WritePCs, TestPCs, CopyPCs

LEMMA FetchKeepsBase ==
    ASSUME BaseInv, NEW t \in Threads, Fetch(t)
    PROVE  BaseInv'
<1> DEFINE a == IF req[t].op = "read" THEN ReadFrom(indice[t]) ELSE DumpFrom(indice[t])
           b == Place(a, indice[t])
           v == IF b \in Blocks THEN array[a][b] ELSE "failed"
<1>1. /\ pc[t] = "fetch"
      /\ ret' = [ret EXCEPT ![t] = v]
      /\ pc' = [pc EXCEPT ![t] = "leave"]
      /\ UNCHANGED <<PERMISSOES, array, livre, registo, array_activo, req, to, i, indice, buf,
                     sum, latest>>
    BY DEF Fetch, Answer, Goto, log, locals
<1>2. a \in {1, 2}
    BY DEF ReadFrom, DumpFrom
<1> HIDE DEF a, b
<1>3. v \in Data \cup {Blank, "failed"}
    BY <1>2 DEF BaseInv, TypeOK
<1>4. v # None
    BY <1>3, ValueAssumption
<1> HIDE DEF v
<1>5. TypeOK'
    BY <1>1, <1>3 DEF BaseInv, TypeOK, PCs
<1>6. QED
    BY <1>1, <1>4, <1>5, WorkKeepsLock DEF BaseInv, TypeOK, CallInv, WritePCs, TestPCs, CopyPCs

(* Every step keeps the types, and uses the lock as its contract asks. *)
LEMMA BaseInvariance == SafetySpec => []BaseInv
<1>1. Init => BaseInv
  <2> SUFFICES ASSUME Init PROVE BaseInv
      OBVIOUS
  <2>1. TypeOK
      BY LogAssumption DEF Init, TypeOK, PCs, Lock!Init, Lock!Status, Registers, Blocks, NumBlocks
  <2>2. \A t \in Threads : CallInv(t)
      BY DEF Init, CallInv, WritePCs, TestPCs, CopyPCs, Lock!Init
  <2>3. Lock!Exclusion
      BY DEF Init, Lock!Init, Lock!Exclusion, Lock!Writers
  <2>4. QED
      BY <2>1, <2>2, <2>3 DEF BaseInv
<1>2. BaseInv /\ [Next]_vars => BaseInv'
  <2> SUFFICES ASSUME BaseInv, [Next]_vars PROVE BaseInv'
      OBVIOUS
  <2>1. CASE UNCHANGED vars
    <3>1. UNCHANGED <<PERMISSOES, array, livre, registo, array_activo, pc, req, to, i, indice,
                      buf, sum, ret, latest>>
        BY <2>1 DEF vars, log, locals
    <3>2. TypeOK'
        BY <3>1 DEF BaseInv, TypeOK
    <3>3. \A t \in Threads : CallInv(t)'
        BY <3>1, OthersKeepCall DEF BaseInv
    <3>4. Lock!Exclusion'
        BY <3>1 DEF BaseInv, Lock!Exclusion, Lock!Writers, Lock!Readers
    <3>5. QED
        BY <3>2, <3>3, <3>4 DEF BaseInv
  <2>2. ASSUME NEW t \in Threads, Call(t) \/ Enter(t) \/ Work(t) PROVE BaseInv'
      BY <2>2, CallKeepsBase, EnterKeepsBase, ReturnKeepsBase, TestKeepsBase, FlipKeepsBase,
         CopyKeepsBase, StoreKeepsBase, PointKeepsBase, AddKeepsBase, AdvanceKeepsBase, IndexKeepsBase, FetchKeepsBase
         DEF Work
  <2>3. QED
      BY <2>1, <2>2 DEF Next
<1>3. QED
    BY <1>1, <1>2, PTL DEF SafetySpec

(* The log's variables have their types with any number of writers, also when two writes
   run over each other: what the blocks hold was stored by a caller or is blank, and a call
   answers with such a block, "ok" or "failed".  Of livre and registo it says that they are
   natural numbers, not that they stay within the arrays, which with two writers they do
   not (logrw.c 119-250). *)
THEOREM TypeCorrect == SafetySpec => []TypeOK
<1>1. BaseInv => TypeOK
    BY DEF BaseInv
<1>2. QED
    BY <1>1, BaseInvariance, PTL

-----------------------------------------------------------------------------
(* The next free block, with one writer *)

(* With one writer, nobody else is inside logrw_write. *)
LEMMA OnlyTheWriter ==
    ASSUME BaseInv, NEW w, WriterThreads = {w}, NEW t \in Threads, pc[t] \in WritePCs
    PROVE  t = w
BY DEF BaseInv, CallInv, WritePCs, TestPCs, CopyPCs

(* The steps in which no register and no block changes. *)
Aside(w) ==
    /\ UNCHANGED <<array, livre, registo, array_activo, latest>>
    /\ \/ /\ pc'[w] = pc[w] /\ i'[w] = i[w] /\ to'[w] = to[w] /\ buf'[w] = buf[w]
          /\ req'[w] = req[w]
       \/ ~Copying(w) /\ ~Copying(w)'

(* Those of them that are no part of a write. *)
Outside(w) ==
    /\ Aside(w)
    /\ \/ pc'[w] = pc[w] /\ i'[w] = i[w] /\ to'[w] = to[w] /\ sum'[w] = sum[w]
       \/ ~Copying(w) /\ pc'[w] \in {"idle", "ask", "write", "index", "fetch", "leave"}

LEMMA OutsideSteps ==
    ASSUME BaseInv, NEW w \in Threads, NEW t \in Threads,
           Call(t) \/ Enter(t) \/ Return(t) \/ Index(t) \/ Fetch(t)
    PROVE  Outside(w)
<1>1. /\ pc \in [Threads -> PCs] /\ i \in [Threads -> 0 .. num_reg] /\ to \in [Threads -> {1, 2}]
      /\ buf \in [Threads -> Data \cup {Blank, None}] /\ req \in [Threads -> Requests \cup {None}]
      /\ sum \in [Threads -> Nat]
    BY DEF BaseInv, TypeOK
<1>2. CASE Call(t)
  <2>1. /\ pc[t] = "idle" /\ pc' = [pc EXCEPT ![t] = "ask"]
        /\ \E q \in Requests : req' = [req EXCEPT ![t] = q]
        /\ UNCHANGED <<array, livre, registo, array_activo, latest, i, to, buf, sum>>
      BY <1>2 DEF Call, Goto, log, locals
  <2>2. QED
      BY <1>1, <2>1 DEF Outside, Aside, Copying, CopyPCs
<1>3. CASE Enter(t)
  <2>1. /\ pc[t] = "ask" /\ pc' = [pc EXCEPT ![t] = Entry(req[t].op)] /\ req' = req
        /\ UNCHANGED <<array, livre, registo, array_activo, latest, i, to, buf, sum>>
      BY <1>3 DEF Enter, Goto, log, locals
  <2>2. Entry(req[t].op) \in {"write", "index"}
      BY DEF Entry
  <2>3. QED
      BY <1>1, <2>1, <2>2 DEF Outside, Aside, Copying, CopyPCs
<1>4. CASE Return(t)
  <2>1. /\ pc[t] = "leave" /\ pc' = [pc EXCEPT ![t] = "idle"]
        /\ req' = [req EXCEPT ![t] = None]
        /\ buf' = [buf EXCEPT ![t] = None]
        /\ to' = [to EXCEPT ![t] = 1]
        /\ i' = [i EXCEPT ![t] = 0]
        /\ sum' = [sum EXCEPT ![t] = 0]
        /\ UNCHANGED <<array, livre, registo, array_activo, latest>>
      BY <1>4 DEF Return, Goto, log
  <2>2. QED
      BY <1>1, <2>1 DEF Outside, Aside, Copying, CopyPCs
<1>5. CASE Index(t)
  <2>1. /\ pc[t] = "index" /\ pc' = [pc EXCEPT ![t] = "fetch"] /\ req' = req
        /\ UNCHANGED <<array, livre, registo, array_activo, latest, i, to, buf, sum>>
      BY <1>5 DEF Index, Goto, log
  <2>2. QED
      BY <1>1, <2>1 DEF Outside, Aside, Copying, CopyPCs
<1>6. CASE Fetch(t)
  <2>1. /\ pc[t] = "fetch" /\ pc' = [pc EXCEPT ![t] = "leave"] /\ req' = req
        /\ UNCHANGED <<array, livre, registo, array_activo, latest, i, to, buf, sum>>
      BY <1>6 DEF Fetch, Answer, Goto, log, locals
  <2>2. QED
      BY <1>1, <2>1 DEF Outside, Aside, Copying, CopyPCs
<1>7. QED
    BY <1>2, <1>3, <1>4, <1>5, <1>6

(* The values of the variables a write works with. *)
LEMMA WriterTypes ==
    ASSUME BaseInv, NEW w \in Threads
    PROVE  /\ livre \in Nat /\ array_activo \in {0, 1}
           /\ i[w] \in 0 .. num_reg /\ to[w] \in {1, 2}
           /\ num_reg \in Nat \ {0} /\ NumBlocks \in Nat \ {0}
           /\ registo \in [Registers -> Nat]
           /\ \A r \in Registers : r \in Nat /\ r < num_reg
           /\ Base \in Nat /\ OtherBase \in Nat
           /\ array_activo = 0 => Base = 0 /\ OtherBase = NumBlocks
           /\ array_activo = 1 => Base = NumBlocks /\ OtherBase = 0
BY LogAssumption DEF BaseInv, TypeOK, NumBlocks, Registers, Base, OtherBase

(* Which array logrw_write chooses. *)
LEMMA TestEffect ==
    ASSUME BaseInv, NEW w \in Threads, FreeInv(w),
           First(w) \/ Second(w) \/ RoomInFirst(w) \/ RoomInSecond(w)
    PROVE  /\ pc[w] \in TestPCs /\ ret' = ret
           /\ UNCHANGED <<array, livre, registo, array_activo, req, latest>>
           /\ \/ pc'[w] = "flip" /\ to'[w] = 2 /\ livre = NumBlocks
              \/ pc'[w] = "flip" /\ to'[w] = 1 /\ livre = 2 * NumBlocks
              \/ pc'[w] = "full" /\ livre # NumBlocks
              \/ pc'[w] = "room" /\ livre # NumBlocks /\ livre # 2 * NumBlocks
              \/ pc'[w] = "behind" /\ livre > NumBlocks /\ livre # 2 * NumBlocks
              \/ /\ livre < Base + NumBlocks
                 /\ pc'[w] = "store" /\ i'[w] = num_reg /\ to'[w] = array_activo + 1
                 /\ buf'[w] = req[w].data
<1>1. /\ pc[w] \in TestPCs
      /\ UNCHANGED <<array, livre, registo, array_activo, req, latest>>
    BY DEF First, Second, RoomInFirst, RoomInSecond, TestPCs, log
<1>2. /\ pc \in [Threads -> PCs] /\ i \in [Threads -> 0 .. num_reg] /\ to \in [Threads -> {1, 2}]
      /\ buf \in [Threads -> Data \cup {Blank, None}]
    BY DEF BaseInv, TypeOK
<1>3. /\ livre \in Nat /\ array_activo \in {0, 1} /\ NumBlocks \in Nat \ {0}
      /\ array_activo = 0 => Base = 0
      /\ array_activo = 1 => Base = NumBlocks
      /\ Base <= livre /\ livre <= Base + NumBlocks
  <2>1. pc[w] # "clear"
      BY <1>1 DEF TestPCs
  <2>2. QED
      BY <2>1, WriterTypes DEF FreeInv
<1>4. ASSUME NEW a, Straight(w, a)
      PROVE  pc'[w] = "store" /\ i'[w] = num_reg /\ to'[w] = a /\ buf'[w] = req[w].data
    BY <1>2, <1>4 DEF Straight, GoesTo, Goto
<1>5. CASE First(w)
    BY <1>1, <1>2, <1>5 DEF First, GoesTo, Goto
<1>6. CASE Second(w)
  <2>1. livre # NumBlocks
      BY <1>6 DEF Second, FreeInv, TestsInv
  <2>2. QED
      BY <1>1, <1>2, <1>6, <2>1 DEF Second, GoesTo, Goto
<1>7. CASE RoomInFirst(w)
  <2>1. livre # NumBlocks /\ livre # 2 * NumBlocks /\ ret' = ret
      BY <1>7 DEF RoomInFirst, FreeInv, TestsInv
  <2>2. CASE livre < NumBlocks /\ Straight(w, 1)
    <3>1. array_activo = 0
        BY <1>3, <2>2
    <3>2. QED
        BY <1>1, <1>3, <1>4, <2>1, <2>2, <3>1
  <2>3. CASE ~(livre < NumBlocks) /\ Goto(w, "behind")
    <3>1. livre > NumBlocks
        BY <1>3, <2>1, <2>3
    <3>2. pc'[w] = "behind"
        BY <1>2, <2>3 DEF Goto
    <3>3. QED
        BY <1>1, <2>1, <3>1, <3>2
  <2>4. QED
      BY <1>7, <2>2, <2>3 DEF RoomInFirst
<1>8. CASE RoomInSecond(w)
  <2>1. livre > NumBlocks /\ livre # 2 * NumBlocks
      BY <1>8 DEF RoomInSecond, FreeInv, TestsInv
  <2>2. Straight(w, 2) /\ ret' = ret
      BY <1>8, <2>1 DEF RoomInSecond
  <2>3. array_activo = 1 /\ livre < Base + NumBlocks
      BY <1>3, <2>1
  <2>4. QED
      BY <1>1, <1>4, <2>2, <2>3
<1>9. QED
    BY <1>5, <1>6, <1>7, <1>8

LEMMA FlipEffect ==
    ASSUME BaseInv, NEW w \in Threads, Flip(w)
    PROVE  /\ pc[w] = "flip" /\ array_activo' = to[w] - 1 /\ i'[w] = 0 /\ to' = to
           /\ pc'[w] = IF to[w] = 1 THEN "clear" ELSE "copy"
           /\ UNCHANGED <<array, livre, registo, req, ret, latest>>
<1>1. pc \in [Threads -> PCs] /\ i \in [Threads -> 0 .. num_reg]
    BY DEF BaseInv, TypeOK
<1>2. QED
    BY <1>1 DEF Flip, Goto

LEMMA ClearEffect ==
    ASSUME BaseInv, NEW w \in Threads, Clear(w)
    PROVE  /\ pc[w] = "clear" /\ pc'[w] = "copy" /\ livre' = 0
           /\ UNCHANGED <<array, registo, array_activo, req, to, i, ret, latest>>
<1>1. pc \in [Threads -> PCs]
    BY DEF BaseInv, TypeOK
<1>2. QED
    BY <1>1 DEF Clear, Goto, locals

(* The block that is stored in, seen from the start of the active array. *)
LEMMA PlaceOfFree ==
    ASSUME BaseInv, NEW w \in Threads, FreeInv(w), Copying(w), pc[w] # "clear"
    PROVE  /\ Place(to[w], livre) = livre - Base
           /\ Place(to[w], livre) \in Blocks <=> livre < Base + NumBlocks
<1>1. /\ to[w] = array_activo + 1 /\ Base <= livre
      /\ livre \in Nat /\ array_activo \in {0, 1} /\ NumBlocks \in Nat \ {0}
      /\ array_activo = 0 => Base = 0
      /\ array_activo = 1 => Base = NumBlocks
    BY WriterTypes DEF FreeInv
<1>2. Place(to[w], livre) = livre - Base
    BY <1>1 DEF Place
<1>3. QED
    BY <1>1, <1>2 DEF Blocks

(* What a round does, seen from the writer. *)
LEMMA CopyEffect ==
    ASSUME BaseInv, NEW w \in Threads, Copy(w)
    PROVE  /\ pc[w] = "copy"
           /\ array' = array /\ livre' = livre /\ registo' = registo
           /\ array_activo' = array_activo /\ latest' = latest /\ req' = req /\ to'[w] = to[w]
           /\ \/ /\ i[w] = num_reg /\ i'[w] = i[w] /\ pc'[w] = "store"
                 /\ buf'[w] = req[w].data
              \/ /\ i[w] < num_reg /\ i'[w] = i[w] /\ pc'[w] = "store"
                 /\ Place(Other(to[w]), registo[i[w]]) \in Blocks
                 /\ buf'[w] = array[Other(to[w])][Place(Other(to[w]), registo[i[w]])]
              \/ /\ i[w] < num_reg /\ i'[w] = i[w] + 1 /\ pc'[w] = "copy"
                 /\ Place(Other(to[w]), registo[i[w]]) \notin Blocks
<1>1. /\ pc \in [Threads -> PCs] /\ i \in [Threads -> 0 .. num_reg]
      /\ buf \in [Threads -> Data \cup {Blank, None}]
    BY DEF BaseInv, TypeOK
<1>2. QED
    BY <1>1 DEF Copy, NextRound, Goto, log

LEMMA StoreEffect ==
    ASSUME BaseInv, NEW w \in Threads, Store(w)
    PROVE  /\ pc[w] = "store"
           /\ livre' = livre /\ registo' = registo
           /\ array_activo' = array_activo /\ latest' = latest /\ req' = req /\ to'[w] = to[w]
           /\ \/ /\ Place(to[w], livre) \in Blocks /\ i'[w] = i[w] /\ pc'[w] = "point"
                 /\ array' = [array EXCEPT ![to[w]][Place(to[w], livre)] = buf[w]]
                 /\ ret' = ret
              \/ /\ Place(to[w], livre) \notin Blocks /\ i[w] < num_reg
                 /\ i'[w] = i[w] + 1 /\ pc'[w] = "copy" /\ array' = array
                 /\ ret' = ret
              \/ /\ Place(to[w], livre) \notin Blocks /\ i[w] = num_reg
                 /\ i'[w] = i[w] /\ pc'[w] = "leave" /\ array' = array
<1>1. pc \in [Threads -> PCs] /\ i \in [Threads -> 0 .. num_reg]
    BY DEF BaseInv, TypeOK
<1>2. QED
    BY <1>1 DEF Store, NextRound, Answer, Goto

LEMMA PointEffect ==
    ASSUME BaseInv, NEW w \in Threads, Point(w)
    PROVE  /\ pc[w] = "point" /\ pc' = [pc EXCEPT ![w] = "add"]
           /\ array' = array /\ livre' = livre /\ array_activo' = array_activo
           /\ req' = req /\ to' = to /\ i' = i /\ ret' = ret
           /\ \/ /\ i[w] < num_reg /\ latest' = latest
                 /\ registo' = [registo EXCEPT ![i[w]] = livre]
              \/ /\ i[w] = num_reg
                 /\ registo' = [registo EXCEPT ![req[w].reg] = livre]
                 /\ latest' = [latest EXCEPT ![req[w].reg] = req[w].data]
BY DEF Point, Goto, locals

LEMMA AddEffect ==
    ASSUME BaseInv, NEW w \in Threads, Add(w)
    PROVE  /\ pc[w] = "add" /\ pc'[w] = "advance" /\ sum'[w] = livre + 1
           /\ UNCHANGED <<array, livre, registo, array_activo, req, to, i, ret, latest>>
<1>1. pc \in [Threads -> PCs] /\ sum \in [Threads -> Nat]
    BY DEF BaseInv, TypeOK
<1>2. QED
    BY <1>1 DEF Add, Goto, log

LEMMA AdvanceEffect ==
    ASSUME BaseInv, NEW w \in Threads, Advance(w)
    PROVE  /\ pc[w] = "advance" /\ livre' = sum[w]
           /\ array' = array /\ registo' = registo /\ array_activo' = array_activo
           /\ latest' = latest /\ req' = req /\ to'[w] = to[w]
           /\ \/ i[w] < num_reg /\ i'[w] = i[w] + 1 /\ pc'[w] = "copy" /\ ret' = ret
              \/ i[w] = num_reg /\ i'[w] = i[w] /\ pc'[w] = "leave"
                 /\ ret' = [ret EXCEPT ![w] = "ok"]
<1>1. pc \in [Threads -> PCs] /\ i \in [Threads -> 0 .. num_reg]
    BY DEF BaseInv, TypeOK
<1>2. QED
    BY <1>1 DEF Advance, NextRound, Answer, Goto

(* Which steps there are, with one writer. *)
StepOf(w) ==
    \/ Outside(w)
    \/ First(w) \/ Second(w) \/ RoomInFirst(w) \/ RoomInSecond(w) \/ Flip(w) \/ Clear(w)
    \/ Copy(w) \/ Store(w) \/ Point(w) \/ Add(w) \/ Advance(w)

LEMMA StepOfOne ==
    ASSUME BaseInv, NEW w, WriterThreads = {w}, [Next]_vars
    PROVE  w \in Threads /\ StepOf(w)
<1>1. w \in Threads
    BY LogAssumption
<1>2. CASE UNCHANGED vars
    BY <1>1, <1>2 DEF vars, log, locals, Outside, Aside, StepOf
<1>3. ASSUME NEW t \in Threads, Call(t) \/ Enter(t) \/ Index(t) \/ Fetch(t) \/ Return(t)
      PROVE  StepOf(w)
    BY <1>1, <1>3, OutsideSteps DEF StepOf
<1>4. ASSUME NEW t \in Threads,
             \/ First(t) \/ Second(t) \/ RoomInFirst(t) \/ RoomInSecond(t)
             \/ Flip(t) \/ Clear(t) \/ Copy(t) \/ Store(t) \/ Point(t) \/ Add(t) \/ Advance(t)
      PROVE  StepOf(w)
  <2>1. pc[t] \in WritePCs
      BY <1>4 DEF First, Second, RoomInFirst, RoomInSecond, Flip, Clear, Copy, Store, Point, Add,
                  Advance, WritePCs, TestPCs, CopyPCs
  <2>2. t = w
      BY <2>1, OnlyTheWriter
  <2>3. QED
      BY <1>4, <2>2 DEF StepOf
<1>5. QED
    BY <1>1, <1>2, <1>3, <1>4 DEF Next, Work

(* A write, or anything else, leaves livre in the active array or just behind it. *)
LEMMA FreeKept ==
    ASSUME BaseInv, BaseInv', NEW w, WriterThreads = {w}, FreeInv(w), [Next]_vars
    PROVE  FreeInv(w)'
<1>1. w \in Threads /\ StepOf(w)
    BY StepOfOne
<1>2. /\ livre \in Nat /\ array_activo \in {0, 1} /\ NumBlocks \in Nat \ {0}
      /\ array_activo = 0 => Base = 0
      /\ array_activo = 1 => Base = NumBlocks
      /\ Base \in Nat
    BY <1>1, WriterTypes
<1>3. /\ array_activo' = 0 => Base' = 0
      /\ array_activo' = 1 => Base' = NumBlocks
    BY DEF Base
<1>4. array_activo' = array_activo => Base' = Base
    BY DEF Base
<1>5. CASE Outside(w)
  <2>1. livre' = livre /\ array_activo' = array_activo /\ Base' = Base
      BY <1>4, <1>5 DEF Outside, Aside
  <2>2. CASE pc'[w] = pc[w] /\ i'[w] = i[w] /\ to'[w] = to[w] /\ sum'[w] = sum[w]
      BY <2>1, <2>2 DEF FreeInv, Copying, TestsInv
  <2>3. CASE ~Copying(w) /\ pc'[w] \in {"idle", "ask", "write", "index", "fetch", "leave"}
      BY <2>1, <2>3 DEF FreeInv, Copying, CopyPCs, TestsInv
  <2>4. QED
      BY <1>5, <2>2, <2>3 DEF Outside
<1>6. CASE First(w) \/ Second(w) \/ RoomInFirst(w) \/ RoomInSecond(w)
  <2>1. /\ pc[w] \in TestPCs /\ livre' = livre /\ array_activo' = array_activo /\ Base' = Base
        /\ Base <= livre /\ livre <= Base + NumBlocks
      BY <1>1, <1>4, <1>6, TestEffect DEF FreeInv, TestPCs
  <2>2. CASE /\ livre < Base + NumBlocks
             /\ pc'[w] = "store" /\ to'[w] = array_activo + 1
      BY <2>1, <2>2 DEF FreeInv, Copying, CopyPCs, TestsInv
  <2>3. CASE \/ pc'[w] = "flip" /\ to'[w] = 2 /\ livre = NumBlocks
             \/ pc'[w] = "flip" /\ to'[w] = 1 /\ livre = 2 * NumBlocks
             \/ pc'[w] = "full" /\ livre # NumBlocks
             \/ pc'[w] = "room" /\ livre # NumBlocks /\ livre # 2 * NumBlocks
             \/ pc'[w] = "behind" /\ livre > NumBlocks /\ livre # 2 * NumBlocks
      BY <2>1, <2>3 DEF FreeInv, Copying, CopyPCs, TestsInv
  <2>4. QED
      BY <1>1, <1>6, <2>2, <2>3, TestEffect
<1>7. CASE Flip(w)
  <2>1. /\ pc[w] = "flip" /\ array_activo' = to[w] - 1 /\ to' = to /\ livre' = livre
        /\ pc'[w] = IF to[w] = 1 THEN "clear" ELSE "copy"
      BY <1>1, <1>7, FlipEffect
  <2>2. \/ to[w] = 2 /\ livre = NumBlocks
        \/ to[w] = 1 /\ livre = 2 * NumBlocks
      BY <2>1 DEF FreeInv, TestsInv
  <2>3. QED
      BY <1>2, <1>3, <2>1, <2>2 DEF FreeInv, Copying, CopyPCs, TestsInv
<1>8. CASE Clear(w)
  <2>1. /\ pc[w] = "clear" /\ pc'[w] = "copy" /\ livre' = 0 /\ to' = to
        /\ array_activo' = array_activo
      BY <1>1, <1>8, ClearEffect
  <2>2. QED
      BY <1>2, <1>3, <2>1 DEF FreeInv, Copying, CopyPCs, TestsInv
<1>9. CASE Copy(w)
    BY <1>1, <1>4, <1>9, CopyEffect DEF FreeInv, Copying, CopyPCs, TestsInv
<1>10. CASE Store(w)
  <2>1. Copying(w) /\ pc[w] = "store"
      BY <1>10 DEF Copying, CopyPCs, Store
  <2>2. Place(to[w], livre) \in Blocks <=> livre < Base + NumBlocks
      BY <1>1, <2>1, PlaceOfFree
  <2>3. QED
      BY <1>1, <1>4, <1>10, <2>1, <2>2, StoreEffect DEF FreeInv, Copying, CopyPCs, TestsInv
<1>11. CASE Point(w)
  <2>1. /\ pc[w] = "point" /\ livre' = livre /\ array_activo' = array_activo /\ to' = to
        /\ pc'[w] = "add"
      BY <1>1, <1>11, PointEffect DEF BaseInv, TypeOK
  <2>2. QED
      BY <1>4, <2>1 DEF FreeInv, Copying, CopyPCs, TestsInv
<1>12. CASE Add(w)
    BY <1>1, <1>2, <1>4, <1>12, AddEffect DEF FreeInv, Copying, CopyPCs, TestsInv
<1>13. CASE Advance(w)
  <2>1. /\ pc[w] = "advance" /\ livre' = sum[w] /\ array_activo' = array_activo
        /\ to'[w] = to[w] /\ pc'[w] \in {"copy", "leave"}
      BY <1>1, <1>13, AdvanceEffect
  <2>2. livre' = livre + 1
      BY <2>1 DEF FreeInv
  <2>3. QED
      BY <1>2, <1>4, <2>1, <2>2 DEF FreeInv, Copying, CopyPCs, TestsInv
<1>14. QED
    BY <1>1, <1>5, <1>6, <1>7, <1>8, <1>9, <1>10, <1>11, <1>12, <1>13 DEF StepOf

LEMMA FreeInvariance ==
    ASSUME NEW w, WriterThreads = {w}
    PROVE  SafetySpec => []FreeInv(w)
<1>1. Init => FreeInv(w)
    BY LogAssumption DEF Init, FreeInv, Base, Copying, CopyPCs, TestsInv, NumBlocks
<1>2. BaseInv /\ BaseInv' /\ FreeInv(w) /\ [Next]_vars => FreeInv(w)'
    BY FreeKept
<1>3. QED
    BY <1>1, <1>2, BaseInvariance, PTL DEF SafetySpec

(* With one writer, livre is in the active array or just behind it, except between the two
   assignments of a flip back, whatever the numbers of registers and of blocks are:
   logrw_write never sets it where no write would succeed again (logrw.c 163-247). *)
THEOREM FreeBlockInActiveCorrect ==
    ASSUME NEW w, WriterThreads = {w}
    PROVE  SafetySpec => []FreeBlockInActive
<1>1. BaseInv /\ FreeInv(w) => FreeBlockInActive
  <2>1. w \in Threads
      BY LogAssumption
  <2>2. SUFFICES ASSUME BaseInv, FreeInv(w), \A t \in Threads : pc[t] # "clear"
                 PROVE  /\ array_activo = 0 => livre <= NumBlocks
                        /\ array_activo = 1 => NumBlocks <= livre /\ livre <= 2 * NumBlocks
      BY DEF FreeBlockInActive
  <2>3. Base <= livre /\ livre <= Base + NumBlocks
      BY <2>1, <2>2 DEF FreeInv
  <2>4. QED
      BY <2>1, <2>2, <2>3, WriterTypes
<1>2. QED
    BY <1>1, BaseInvariance, FreeInvariance, PTL

-----------------------------------------------------------------------------
(* Where the registers are, with one writer and arrays that hold them all *)

(* A block of the active array is found by its distance from the start of the array, and
   so is one of the other array. *)
LEMMA ContentIs ==
    ASSUME BaseInv, NEW w \in Threads, NEW r \in Registers
    PROVE  /\ Base <= registo[r] /\ registo[r] < Base + NumBlocks
                => /\ Content(r) = array[array_activo + 1][registo[r] - Base]
                   /\ registo[r] - Base \in Blocks
           /\ OtherBase <= registo[r] /\ registo[r] < OtherBase + NumBlocks
                => /\ Content(r) = array[2 - array_activo][registo[r] - OtherBase]
                   /\ registo[r] - OtherBase \in Blocks
                   /\ Place(2 - array_activo, registo[r]) = registo[r] - OtherBase
<1>1. /\ registo[r] \in Nat /\ array_activo \in {0, 1} /\ NumBlocks \in Nat \ {0}
      /\ array_activo = 0 => Base = 0 /\ OtherBase = NumBlocks
      /\ array_activo = 1 => Base = NumBlocks /\ OtherBase = 0
    BY WriterTypes
<1>2. CASE array_activo = 0
    BY <1>1, <1>2 DEF Content, ReadFrom, Place, Blocks
<1>3. CASE array_activo = 1
    BY <1>1, <1>3 DEF Content, ReadFrom, Place, Blocks
<1>4. QED
    BY <1>1, <1>2, <1>3

(* What the registers hold changes only with the arrays and with where they point. *)
LEMMA ContentKept ==
    ASSUME array' = array, registo' = registo, latest' = latest
    PROVE  /\ \A r \in Registers : Holds(r)' <=> Holds(r)
           /\ OwnBlock' <=> OwnBlock
<1>1. ASSUME NEW r \in Registers PROVE Holds(r)' <=> Holds(r)
    BY DEF Holds, Content
<1>2. QED
    BY <1>1 DEF OwnBlock

LEMMA AsideKeeps ==
    ASSUME NEW w, LogInv(w), Aside(w)
    PROVE  LogInv(w)'
<1>1. array' = array /\ registo' = registo /\ latest' = latest /\ livre' = livre
      /\ array_activo' = array_activo
    BY DEF Aside
<1>2. Base' = Base /\ OtherBase' = OtherBase
    BY <1>1 DEF Base, OtherBase
<1>3. CASE pc'[w] = pc[w] /\ i'[w] = i[w] /\ to'[w] = to[w] /\ buf'[w] = buf[w]
           /\ req'[w] = req[w]
  <2>1. /\ Copying(w)' = Copying(w) /\ Moved(w)' = Moved(w) /\ Top(w)' = Top(w)
      BY <1>1, <1>3 DEF Copying, CopyPCs, Moved, Top
  <2>2. RoundsInv(w)'
      BY <1>1, <1>2, <1>3, <2>1 DEF LogInv, RoundsInv
  <2>3. WhereInv(w)'
      BY <1>1, <1>2, <2>1 DEF LogInv, WhereInv
  <2>4. CopiesInv(w)'
      BY <1>1, <1>2, <1>3 DEF LogInv, CopiesInv, RoundData
  <2>5. QED
      BY <1>1, <2>2, <2>3, <2>4, ContentKept DEF LogInv
<1>4. CASE ~Copying(w) /\ ~Copying(w)'
  <2>1. /\ Moved(w)' = Moved(w) /\ Top(w)' = Top(w)
      BY <1>1, <1>4 DEF Copying, CopyPCs, Moved, Top
  <2>2. RoundsInv(w)'
      BY <1>1, <1>2, <1>4 DEF LogInv, RoundsInv, Copying, CopyPCs
  <2>3. WhereInv(w)'
      BY <1>1, <1>2, <2>1 DEF LogInv, WhereInv
  <2>4. CopiesInv(w)'
      BY <1>4 DEF CopiesInv, Copying, CopyPCs
  <2>5. QED
      BY <1>1, <2>2, <2>3, <2>4, ContentKept DEF LogInv
<1>5. QED
    BY <1>3, <1>4 DEF Aside

(* The tests change nothing, until one of them finds room. *)
LEMMA TestKeeps ==
    ASSUME BaseInv, NEW w \in Threads, num_reg <= NumBlocks, FreeInv(w), LogInv(w),
           First(w) \/ Second(w) \/ RoomInFirst(w) \/ RoomInSecond(w)
    PROVE  LogInv(w)'
<1>1. /\ pc[w] \in TestPCs
      /\ UNCHANGED <<array, livre, registo, array_activo, req, latest>>
    BY TestEffect
<1>2. CASE pc'[w] \in {"flip", "full", "room", "behind"}
  <2>1. Aside(w)
      BY <1>1, <1>2 DEF Aside, Copying, CopyPCs, TestPCs
  <2>2. QED
      BY <2>1, AsideKeeps
<1>3. CASE /\ livre < Base + NumBlocks
           /\ pc'[w] = "store" /\ i'[w] = num_reg /\ to'[w] = array_activo + 1
           /\ buf'[w] = req[w].data
  <2>1. /\ livre \in Nat /\ array_activo \in {0, 1} /\ NumBlocks \in Nat \ {0}
        /\ num_reg \in Nat \ {0} /\ registo \in [Registers -> Nat]
        /\ \A r \in Registers : r \in Nat /\ r < num_reg
        /\ Base' = Base /\ OtherBase' = OtherBase
      BY <1>1, WriterTypes DEF Base, OtherBase
  <2>2. /\ \A r \in Registers : /\ Base <= registo[r] /\ registo[r] < Base + NumBlocks
                                /\ latest[r] # None => registo[r] < livre
        /\ array_activo = 1 => livre >= NumBlocks + num_reg
    <3>1. Moved(w) = num_reg /\ Top(w) = livre /\ ~Copying(w)
        BY <1>1 DEF Moved, Top, Copying, CopyPCs, TestPCs
    <3>2. QED
        BY <2>1, <3>1 DEF LogInv, WhereInv, RoundsInv
  <2>3. RoundsInv(w)' /\ CopiesInv(w)'
      BY <1>1, <1>3, <2>1, <2>2 DEF RoundsInv, CopiesInv, Copying, CopyPCs, RoundData
  <2>4. WhereInv(w)'
      BY <1>1, <1>3, <2>1, <2>2 DEF WhereInv, Moved, Top, Copying, CopyPCs
  <2>5. QED
      BY <1>1, <2>3, <2>4, ContentKept DEF LogInv
<1>4. QED
    BY <1>2, <1>3, TestEffect

(* A flip starts when every register is in the full array. *)
LEMMA FlipKeeps ==
    ASSUME BaseInv, NEW w \in Threads, num_reg <= NumBlocks,
           FreeInv(w), LogInv(w), Flip(w)
    PROVE  LogInv(w)'
<1>1. /\ livre \in Nat /\ array_activo \in {0, 1} /\ NumBlocks \in Nat \ {0}
      /\ array_activo = 0 => Base = 0 /\ OtherBase = NumBlocks
      /\ array_activo = 1 => Base = NumBlocks /\ OtherBase = 0
      /\ num_reg \in Nat \ {0} /\ registo \in [Registers -> Nat]
      /\ \A r \in Registers : r \in Nat /\ r < num_reg
    BY WriterTypes
<1>2. /\ array_activo' = 0 => Base' = 0 /\ OtherBase' = NumBlocks
      /\ array_activo' = 1 => Base' = NumBlocks /\ OtherBase' = 0
    BY DEF Base, OtherBase
<1>3. /\ pc[w] = "flip" /\ array_activo' = to[w] - 1 /\ i'[w] = 0 /\ livre' = livre
      /\ pc'[w] = IF to[w] = 1 THEN "clear" ELSE "copy"
      /\ array' = array /\ registo' = registo /\ latest' = latest
    BY FlipEffect
<1>4. (\A r \in Registers : Holds(r)') /\ OwnBlock'
    BY <1>3, ContentKept DEF LogInv
<1>5. /\ \A r \in Registers : Base <= registo[r] /\ registo[r] < Base + NumBlocks
      /\ array_activo = 1 => livre >= NumBlocks + num_reg
      /\ Base <= livre /\ livre <= Base + NumBlocks
  <2>1. Moved(w) = num_reg /\ ~Copying(w)
      BY <1>3 DEF Moved, Copying, CopyPCs
  <2>2. QED
      BY <1>1, <1>3, <2>1 DEF LogInv, WhereInv, RoundsInv, FreeInv
<1>6. CASE to[w] = 2 /\ livre = NumBlocks
  <2>1. array_activo = 0 /\ array_activo' = 1 /\ pc'[w] = "copy"
      BY <1>1, <1>3, <1>5, <1>6
  <2>2. RoundsInv(w)' /\ CopiesInv(w)'
      BY <1>1, <1>2, <1>3, <1>6, <2>1 DEF RoundsInv, CopiesInv, Copying, CopyPCs
  <2>3. WhereInv(w)'
      BY <1>1, <1>2, <1>3, <1>5, <2>1 DEF WhereInv, Moved, Copying, CopyPCs
  <2>4. QED
      BY <1>4, <2>2, <2>3 DEF LogInv
<1>7. CASE to[w] = 1 /\ livre = 2 * NumBlocks
  <2>1. array_activo = 1 /\ array_activo' = 0 /\ pc'[w] = "clear"
      BY <1>1, <1>3, <1>5, <1>7
  <2>2. RoundsInv(w)' /\ CopiesInv(w)'
      BY <1>1, <1>2, <1>3, <2>1 DEF RoundsInv, CopiesInv, Copying, CopyPCs
  <2>3. WhereInv(w)'
      BY <1>1, <1>2, <1>3, <1>5, <2>1 DEF WhereInv, Moved, Copying, CopyPCs
  <2>4. QED
      BY <1>4, <2>2, <2>3 DEF LogInv
<1>8. QED
    BY <1>3, <1>6, <1>7 DEF FreeInv, TestsInv

LEMMA ClearKeeps ==
    ASSUME BaseInv, NEW w \in Threads, FreeInv(w), LogInv(w), Clear(w)
    PROVE  LogInv(w)'
<1>1. /\ pc[w] = "clear" /\ pc'[w] = "copy" /\ livre' = 0
      /\ UNCHANGED <<array, registo, array_activo, req, to, i, latest>>
    BY ClearEffect
<1>2. /\ array_activo = 0 /\ Base = 0 /\ Base' = Base /\ OtherBase' = OtherBase
      /\ i[w] = 0 /\ num_reg \in Nat \ {0} /\ \A r \in Registers : r \in Nat
    BY <1>1, WriterTypes DEF FreeInv, LogInv, RoundsInv, Base, OtherBase
<1>3. RoundsInv(w)' /\ CopiesInv(w)'
    BY <1>1, <1>2 DEF RoundsInv, CopiesInv, Copying, CopyPCs
<1>4. WhereInv(w)'
  <2>1. Moved(w) = 0 /\ Moved(w)' = 0
      BY <1>1, <1>2 DEF Moved, Copying, CopyPCs
  <2>2. \A r \in Registers : ~(r < 0)
      BY <1>2
  <2>3. QED
      BY <1>1, <1>2, <2>1, <2>2 DEF LogInv, WhereInv
<1>5. QED
    BY <1>1, <1>3, <1>4, ContentKept DEF LogInv

(* What a round reads is what its register holds. *)
LEMMA CopyKeeps ==
    ASSUME BaseInv, NEW w \in Threads, FreeInv(w), LogInv(w), Copy(w)
    PROVE  LogInv(w)'
<1>1. /\ livre \in Nat /\ array_activo \in {0, 1} /\ NumBlocks \in Nat \ {0}
      /\ num_reg \in Nat \ {0} /\ i[w] \in 0 .. num_reg /\ Base \in Nat
    BY WriterTypes
<1>2. /\ pc[w] = "copy"
      /\ array' = array /\ livre' = livre /\ registo' = registo
      /\ array_activo' = array_activo /\ latest' = latest /\ req' = req /\ to'[w] = to[w]
    BY CopyEffect
<1>3. Base' = Base /\ OtherBase' = OtherBase
    BY <1>2 DEF Base, OtherBase
<1>4. (\A r \in Registers : Holds(r)') /\ OwnBlock'
    BY <1>2, ContentKept DEF LogInv
<1>5. Other(to[w]) = 2 - array_activo
    BY <1>1, <1>2 DEF FreeInv, Copying, CopyPCs, Other
<1>6. ASSUME i[w] < num_reg
      PROVE  /\ i[w] \in Registers
             /\ Place(Other(to[w]), registo[i[w]]) \in Blocks
             /\ Content(i[w]) = array[Other(to[w])][Place(Other(to[w]), registo[i[w]])]
  <2>1. i[w] \in Registers
      BY <1>1, <1>6 DEF Registers
  <2>2. OtherBase <= registo[i[w]] /\ registo[i[w]] < OtherBase + NumBlocks
      BY <1>1, <1>2, <2>1 DEF LogInv, WhereInv, Moved, Copying, CopyPCs
  <2>3. QED
      BY <1>5, <2>1, <2>2, ContentIs
<1>7. pc'[w] = "store" /\ i'[w] = i[w] /\ RoundData(w, buf'[w])
  <2>1. CASE i[w] = num_reg
      BY <1>1, <2>1, CopyEffect DEF RoundData
  <2>2. CASE i[w] < num_reg
    <3>1. /\ pc'[w] = "store" /\ i'[w] = i[w]
          /\ buf'[w] = Content(i[w])
        BY <1>1, <1>6, <2>2, CopyEffect
    <3>2. Holds(i[w])
        BY <1>6, <2>2 DEF LogInv
    <3>3. QED
        BY <1>1, <2>2, <3>1, <3>2 DEF RoundData, Holds
  <2>3. QED
      BY <1>1, <2>1, <2>2
<1>8. RoundsInv(w)'
    BY <1>1, <1>2, <1>3, <1>7 DEF LogInv, RoundsInv, Copying, CopyPCs
<1>9. WhereInv(w)'
  <2>1. Moved(w)' = Moved(w) /\ Top(w)' = Top(w)
      BY <1>2, <1>7 DEF Moved, Top, Copying, CopyPCs
  <2>2. QED
      BY <1>2, <1>3, <2>1 DEF LogInv, WhereInv
<1>10. CopiesInv(w)'
    BY <1>2, <1>7 DEF CopiesInv, RoundData
<1>11. QED
    BY <1>4, <1>8, <1>9, <1>10 DEF LogInv

(* What a round writes is put where no register points. *)
LEMMA StoreKeeps ==
    ASSUME BaseInv, NEW w \in Threads, num_reg <= NumBlocks,
           FreeInv(w), LogInv(w), Store(w)
    PROVE  LogInv(w)'
<1> DEFINE a == array_activo + 1
           b == livre - Base
<1>1. /\ livre \in Nat /\ array_activo \in {0, 1} /\ NumBlocks \in Nat \ {0}
      /\ array_activo = 0 => Base = 0 /\ OtherBase = NumBlocks
      /\ array_activo = 1 => Base = NumBlocks /\ OtherBase = 0
      /\ num_reg \in Nat \ {0} /\ i[w] \in 0 .. num_reg /\ Base \in Nat
      /\ registo \in [Registers -> Nat]
      /\ \A r \in Registers : r \in Nat /\ r < num_reg
    BY WriterTypes
<1>2. /\ pc[w] = "store" /\ livre' = livre /\ registo' = registo
      /\ array_activo' = array_activo /\ latest' = latest /\ req' = req /\ to'[w] = to[w]
    BY StoreEffect
<1>3. /\ Copying(w) /\ to[w] = a
      /\ Place(to[w], livre) = b
      /\ b \in Blocks <=> livre < Base + NumBlocks
  <2>1. Copying(w)
      BY <1>2 DEF Copying, CopyPCs
  <2>2. QED
      BY <1>2, <2>1, PlaceOfFree DEF FreeInv
<1>4. Base' = Base /\ OtherBase' = OtherBase
    BY <1>2 DEF Base, OtherBase
<1>5. CASE /\ b \in Blocks /\ i'[w] = i[w] /\ pc'[w] = "point"
           /\ array' = [array EXCEPT ![a][b] = buf[w]]
  <2>1. /\ array'[a][b] = buf[w]
        /\ \A x \in {1, 2} : \A c \in Blocks : x # a \/ c # b => array'[x][c] = array[x][c]
      BY <1>1, <1>5 DEF BaseInv, TypeOK
  <2>2. ASSUME NEW r \in Registers PROVE Holds(r)'
    <3>1. SUFFICES ASSUME latest[r] # None PROVE Content(r)' = Content(r)
        BY <1>2 DEF LogInv, Holds
    <3>2. CASE r < Moved(w)
      <4>1. /\ Base <= registo[r] /\ registo[r] < Base + NumBlocks
            /\ registo[r] < livre
          BY <1>2, <3>1, <3>2 DEF LogInv, WhereInv, Top
      <4>2. /\ Content(r) = array[a][registo[r] - Base] /\ registo[r] - Base \in Blocks
          BY <4>1, ContentIs
      <4>3. registo[r] - Base # b
          BY <1>1, <4>1
      <4>4. Content(r)' = array'[a][registo[r] - Base]
          BY <1>1, <1>2, <4>1 DEF Content, ReadFrom, Place
      <4>5. QED
          BY <1>1, <2>1, <4>2, <4>3, <4>4
    <3>3. CASE r >= Moved(w)
      <4>1. OtherBase <= registo[r] /\ registo[r] < OtherBase + NumBlocks
          BY <3>3 DEF LogInv, WhereInv
      <4>2. /\ Content(r) = array[2 - array_activo][registo[r] - OtherBase]
            /\ registo[r] - OtherBase \in Blocks
          BY <4>1, ContentIs
      <4>3. Content(r)' = array'[2 - array_activo][registo[r] - OtherBase]
          BY <1>1, <1>2, <4>1 DEF Content, ReadFrom, Place
      <4>4. 2 - array_activo \in {1, 2} /\ 2 - array_activo # a
          BY <1>1
      <4>5. QED
          BY <2>1, <4>2, <4>3, <4>4
    <3>4. QED
        BY <1>1, <1>2, <3>2, <3>3 DEF Moved, Copying, CopyPCs
  <2>3. OwnBlock'
      BY <1>2 DEF LogInv, OwnBlock
  <2>4. RoundsInv(w)'
      BY <1>1, <1>2, <1>3, <1>4, <1>5 DEF LogInv, RoundsInv, Copying, CopyPCs
  <2>5. WhereInv(w)'
    <3>1. Moved(w)' = Moved(w) /\ Top(w)' = Top(w)
        BY <1>2, <1>5 DEF Moved, Top, Copying, CopyPCs
    <3>2. QED
        BY <1>2, <1>4, <3>1 DEF LogInv, WhereInv
  <2>6. CopiesInv(w)'
      BY <1>2, <1>3, <1>4, <1>5, <2>1 DEF LogInv, CopiesInv, RoundData
  <2>7. QED
      BY <2>2, <2>3, <2>4, <2>5, <2>6 DEF LogInv
<1>6. CASE /\ b \notin Blocks /\ i[w] = num_reg
           /\ i'[w] = i[w] /\ pc'[w] = "leave" /\ array' = array
  <2>1. (\A r \in Registers : Holds(r)') /\ OwnBlock'
      BY <1>2, <1>6, ContentKept DEF LogInv
  <2>2. RoundsInv(w)' /\ CopiesInv(w)'
      BY <1>1, <1>2, <1>4, <1>6 DEF LogInv, RoundsInv, CopiesInv, Copying, CopyPCs
  <2>3. Moved(w)' = Moved(w) /\ Top(w)' = Top(w)
      BY <1>2, <1>6 DEF Moved, Top, Copying, CopyPCs
  <2>4. WhereInv(w)'
      BY <1>2, <1>4, <2>3 DEF LogInv, WhereInv
  <2>5. QED
      BY <2>1, <2>2, <2>4 DEF LogInv
<1>7. i[w] < num_reg => b \in Blocks
  <2>1. SUFFICES ASSUME i[w] < num_reg PROVE livre < Base + NumBlocks
      BY <1>3
  <2>2. livre = Base + i[w]
      BY <1>2, <1>3, <2>1 DEF LogInv, RoundsInv
  <2>3. NumBlocks \in Nat /\ i[w] \in Nat /\ num_reg \in Nat /\ Base \in Nat
      BY <1>1
  <2>4. QED
      BY <2>1, <2>2, <2>3
<1>8. QED
    BY <1>3, <1>5, <1>6, <1>7, StoreEffect

(* A register that is made to point to the block just written has that block alone. *)
LEMMA PointKeeps ==
    ASSUME BaseInv, NEW w \in Threads, FreeInv(w), LogInv(w), Point(w)
    PROVE  LogInv(w)'
<1>1. /\ livre \in Nat /\ array_activo \in {0, 1} /\ NumBlocks \in Nat \ {0}
      /\ array_activo = 0 => Base = 0 /\ OtherBase = NumBlocks
      /\ array_activo = 1 => Base = NumBlocks /\ OtherBase = 0
      /\ num_reg \in Nat \ {0} /\ i[w] \in 0 .. num_reg /\ Base \in Nat
      /\ registo \in [Registers -> Nat]
      /\ \A r \in Registers : r \in Nat /\ r < num_reg
    BY WriterTypes
<1>2. /\ pc[w] = "point" /\ pc' = [pc EXCEPT ![w] = "add"]
      /\ array' = array /\ livre' = livre /\ array_activo' = array_activo
      /\ req' = req /\ to' = to /\ i' = i
    BY PointEffect
<1>3. pc'[w] = "add"
    BY <1>2 DEF BaseInv, TypeOK
<1>4. Base' = Base /\ OtherBase' = OtherBase
    BY <1>2 DEF Base, OtherBase
<1>5. /\ req[w].reg \in Registers /\ latest \in [Registers -> Data \cup {None}]
    BY <1>2, RequestInHand DEF BaseInv, TypeOK
(* k is the register that this round moves or writes. *)
<1>6. PICK k \in Registers :
        /\ registo' = [registo EXCEPT ![k] = livre]
        /\ \A r \in Registers \ {k} : latest'[r] = latest[r]
        /\ latest'[k] # None => latest'[k] = array[to[w]][livre - Base]
        /\ i[w] < num_reg => k = i[w]
        /\ i[w] = num_reg \/ k = i[w]
  <2>1. CASE i[w] < num_reg
    <3>1. i[w] \in Registers
        BY <1>1, <2>1 DEF Registers
    <3>2. registo' = [registo EXCEPT ![i[w]] = livre] /\ latest' = latest
        BY <1>1, <2>1, PointEffect
    <3>3. latest[i[w]] # None => latest[i[w]] = array[to[w]][livre - Base]
        BY <1>2, <2>1 DEF LogInv, CopiesInv, RoundData
    <3>4. QED
        BY <2>1, <3>1, <3>2, <3>3
  <2>2. CASE i[w] = num_reg
    <3>1. /\ registo' = [registo EXCEPT ![req[w].reg] = livre]
          /\ latest' = [latest EXCEPT ![req[w].reg] = req[w].data]
        BY <1>1, <2>2, PointEffect
    <3>2. req[w].data = array[to[w]][livre - Base]
        BY <1>2, <2>2 DEF LogInv, CopiesInv, RoundData
    <3>3. /\ \A r \in Registers \ {req[w].reg} : latest'[r] = latest[r]
          /\ latest'[req[w].reg] = req[w].data
        BY <1>5, <3>1
    <3>4. ~(i[w] < num_reg)
        BY <1>1, <2>2
    <3>5. QED
        BY <1>5, <2>2, <3>1, <3>2, <3>3, <3>4
  <2>3. QED
      BY <1>1, <2>1, <2>2
<1>7. /\ to[w] = array_activo + 1
      /\ Base <= livre /\ livre < Base + NumBlocks
    BY <1>2 DEF FreeInv, Copying, CopyPCs
<1>8. registo'[k] = livre /\ \A r \in Registers \ {k} : registo'[r] = registo[r]
    BY <1>1, <1>6
<1>9. ASSUME NEW r \in Registers PROVE Holds(r)'
  <2>1. CASE r = k
    <3>1. Content(r)' = array[array_activo + 1][livre - Base]
        BY <1>1, <1>2, <1>7, <1>8, <2>1 DEF Content, ReadFrom, Place
    <3>2. QED
        BY <1>6, <1>7, <2>1, <3>1 DEF Holds
  <2>2. CASE r # k
    <3>1. Content(r)' = Content(r)
        BY <1>2, <1>8, <2>2 DEF Content
    <3>2. QED
        BY <1>6, <2>2, <3>1 DEF LogInv, Holds
  <2>3. QED
      BY <2>1, <2>2
<1>10. ASSUME NEW r \in Registers \ {k}, latest[r] # None PROVE registo[r] # livre
  <2>1. CASE r < Moved(w)
    <3>1. registo[r] < livre
        BY <1>2, <1>10, <2>1 DEF LogInv, WhereInv, Top
    <3>2. QED
        BY <1>1, <3>1
  <2>2. CASE r >= Moved(w)
    <3>1. OtherBase <= registo[r] /\ registo[r] < OtherBase + NumBlocks
        BY <2>2 DEF LogInv, WhereInv
    <3>2. QED
        BY <1>1, <1>7, <3>1
  <2>3. QED
      BY <1>1, <1>2, <2>1, <2>2 DEF Moved, Copying, CopyPCs
<1>11. OwnBlock'
  <2>1. SUFFICES ASSUME NEW r \in Registers, NEW s \in Registers,
                        latest'[r] # None, latest'[s] # None, registo'[r] = registo'[s]
                 PROVE  r = s
      BY DEF OwnBlock
  <2>2. CASE r # k /\ s # k
      BY <1>6, <1>8, <2>1, <2>2 DEF LogInv, OwnBlock
  <2>3. CASE r = k /\ s # k
      BY <1>6, <1>8, <1>10, <2>1, <2>3
  <2>4. CASE r # k /\ s = k
      BY <1>6, <1>8, <1>10, <2>1, <2>4
  <2>5. QED
      BY <2>2, <2>3, <2>4
<1>12. RoundsInv(w)'
    BY <1>1, <1>2, <1>3, <1>4 DEF LogInv, RoundsInv, Copying, CopyPCs
<1>13. CopiesInv(w)'
    BY <1>3 DEF CopiesInv
<1>14. WhereInv(w)'
  <2>1. /\ Moved(w) = i[w] /\ Top(w) = livre
        /\ Moved(w)' = i[w] + 1 /\ Top(w)' = livre + 1
      BY <1>2, <1>3 DEF Moved, Top, Copying, CopyPCs
  <2>2. ASSUME NEW r \in Registers
        PROVE  /\ r < i[w] + 1 => /\ Base <= registo'[r] /\ registo'[r] < Base + NumBlocks
                                  /\ latest'[r] # None => registo'[r] < livre + 1
               /\ r >= i[w] + 1 => /\ OtherBase <= registo'[r]
                                   /\ registo'[r] < OtherBase + NumBlocks
    <3>1. CASE r = k
        BY <1>1, <1>6, <1>7, <1>8, <3>1
    <3>2. CASE r # k
      <4>1. /\ registo'[r] = registo[r] /\ latest'[r] = latest[r]
            /\ registo[r] \in Nat /\ r \in Nat /\ r < num_reg
          BY <1>1, <1>6, <1>8, <3>2
      <4>2. /\ r < i[w] => /\ Base <= registo[r] /\ registo[r] < Base + NumBlocks
                           /\ latest[r] # None => registo[r] < livre
            /\ r >= i[w] => /\ OtherBase <= registo[r]
                            /\ registo[r] < OtherBase + NumBlocks
          BY <2>1 DEF LogInv, WhereInv
      <4>3. r # i[w]
          BY <1>6, <3>2, <4>1
      <4>4. QED
          BY <1>1, <4>1, <4>2, <4>3
    <3>3. QED
        BY <3>1, <3>2
  <2>3. QED
      BY <1>4, <2>1, <2>2 DEF WhereInv
<1>15. QED
    BY <1>9, <1>11, <1>12, <1>13, <1>14 DEF LogInv

LEMMA AddKeeps ==
    ASSUME BaseInv, NEW w \in Threads, LogInv(w), Add(w)
    PROVE  LogInv(w)'
<1>1. /\ pc[w] = "add" /\ pc'[w] = "advance"
      /\ UNCHANGED <<array, livre, registo, array_activo, req, to, i, latest>>
    BY AddEffect
<1>2. Base' = Base /\ OtherBase' = OtherBase
    BY <1>1 DEF Base, OtherBase
<1>3. RoundsInv(w)' /\ CopiesInv(w)'
    BY <1>1, <1>2 DEF LogInv, RoundsInv, CopiesInv, Copying, CopyPCs
<1>4. Moved(w)' = Moved(w) /\ Top(w)' = Top(w)
    BY <1>1 DEF Moved, Top, Copying, CopyPCs
<1>5. WhereInv(w)'
    BY <1>1, <1>2, <1>4 DEF LogInv, WhereInv
<1>6. QED
    BY <1>1, <1>3, <1>5, ContentKept DEF LogInv

(* The next round, or the end of the call. *)
LEMMA AdvanceKeeps ==
    ASSUME BaseInv, NEW w \in Threads, FreeInv(w), LogInv(w), Advance(w)
    PROVE  LogInv(w)'
<1>1. /\ livre \in Nat /\ array_activo \in {0, 1} /\ NumBlocks \in Nat \ {0}
      /\ array_activo = 1 => Base = NumBlocks /\ OtherBase = 0
      /\ num_reg \in Nat \ {0} /\ i[w] \in 0 .. num_reg /\ Base \in Nat
      /\ \A r \in Registers : r \in Nat /\ r < num_reg
    BY WriterTypes
<1>2. /\ pc[w] = "advance" /\ livre' = livre + 1
      /\ array' = array /\ registo' = registo /\ array_activo' = array_activo
      /\ latest' = latest /\ req' = req /\ to'[w] = to[w]
    BY AdvanceEffect DEF FreeInv
<1>3. Base' = Base /\ OtherBase' = OtherBase
    BY <1>2 DEF Base, OtherBase
<1>4. (\A r \in Registers : Holds(r)') /\ OwnBlock'
    BY <1>2, ContentKept DEF LogInv
<1>5. \/ i[w] < num_reg /\ i'[w] = i[w] + 1 /\ pc'[w] = "copy"
      \/ i[w] = num_reg /\ i'[w] = i[w] /\ pc'[w] = "leave"
    BY AdvanceEffect
<1>6. RoundsInv(w)'
  <2>1. CASE i[w] < num_reg /\ i'[w] = i[w] + 1 /\ pc'[w] = "copy"
    <3>1. livre = Base + i[w]
        BY <1>2, <2>1 DEF LogInv, RoundsInv, Copying, CopyPCs
    <3>2. QED
        BY <1>1, <1>2, <1>3, <2>1, <3>1 DEF RoundsInv, Copying, CopyPCs
  <2>2. CASE i[w] = num_reg /\ i'[w] = i[w] /\ pc'[w] = "leave"
    <3>1. array_activo = 1 => livre >= NumBlocks + num_reg
        BY <1>1, <2>2 DEF LogInv, RoundsInv
    <3>2. QED
        BY <1>1, <1>2, <2>2, <3>1 DEF RoundsInv, Copying, CopyPCs
  <2>3. QED
      BY <1>5, <2>1, <2>2
<1>7. CopiesInv(w)'
    BY <1>5 DEF CopiesInv
<1>8. WhereInv(w)'
  <2>1. Moved(w) = i[w] + 1 /\ Top(w) = livre + 1 /\ Top(w)' = livre + 1
      BY <1>2, <1>5 DEF Moved, Top, Copying, CopyPCs
  <2>2. \A r \in Registers : r < Moved(w)' <=> r < Moved(w)
      BY <1>1, <1>5, <2>1 DEF Moved, Copying, CopyPCs
  <2>3. \A r \in Registers : r >= Moved(w)' => r >= Moved(w)
      BY <1>1, <1>5, <2>1 DEF Moved, Copying, CopyPCs
  <2>4. QED
      BY <1>2, <1>3, <2>1, <2>2, <2>3 DEF LogInv, WhereInv
<1>9. QED
    BY <1>4, <1>6, <1>7, <1>8 DEF LogInv

LEMMA LogInvariance ==
    ASSUME NEW w, WriterThreads = {w}, num_reg <= NumBlocks
    PROVE  SafetySpec => []LogInv(w)
<1>1. Init => LogInv(w)
  <2> SUFFICES ASSUME Init PROVE LogInv(w)
      OBVIOUS
  <2>1. /\ num_reg \in Nat \ {0} /\ NumBlocks \in Nat \ {0} /\ w \in Threads
        /\ Registers = 0 .. num_reg - 1
      BY LogAssumption DEF NumBlocks, Registers
  <2>2. /\ livre = 0 /\ array_activo = 0 /\ pc[w] = "idle"
        /\ registo = [r \in Registers |-> 0] /\ latest = [r \in Registers |-> None]
      BY <2>1 DEF Init
  <2>3. RoundsInv(w) /\ CopiesInv(w)
      BY <2>2 DEF RoundsInv, CopiesInv, Copying, CopyPCs
  <2>4. WhereInv(w)
      BY <2>1, <2>2 DEF WhereInv, Moved, Top, Copying, CopyPCs, Base
  <2>5. (\A r \in Registers : Holds(r)) /\ OwnBlock
      BY <2>2 DEF Holds, OwnBlock
  <2>6. QED
      BY <2>3, <2>4, <2>5 DEF LogInv
<1>2. BaseInv /\ FreeInv(w) /\ LogInv(w) /\ [Next]_vars => LogInv(w)'
  <2> SUFFICES ASSUME BaseInv, FreeInv(w), LogInv(w), [Next]_vars PROVE LogInv(w)'
      OBVIOUS
  <2>1. w \in Threads /\ StepOf(w)
      BY StepOfOne
  <2>2. QED
      BY <2>1, AsideKeeps, TestKeeps, FlipKeeps, ClearKeeps, CopyKeeps, StoreKeeps, PointKeeps,
         AddKeeps, AdvanceKeeps DEF StepOf, Outside
<1>3. QED
    BY <1>1, <1>2, BaseInvariance, FreeInvariance, PTL DEF SafetySpec

(* Every register points into one of the two arrays. *)
LEMMA InRange ==
    ASSUME BaseInv, NEW w \in Threads, LogInv(w), NEW r \in Registers
    PROVE  registo[r] \in Nat /\ registo[r] < 2 * NumBlocks
<1>1. /\ livre \in Nat /\ array_activo \in {0, 1} /\ NumBlocks \in Nat \ {0}
      /\ array_activo = 0 => Base = 0 /\ OtherBase = NumBlocks
      /\ array_activo = 1 => Base = NumBlocks /\ OtherBase = 0
      /\ registo[r] \in Nat /\ r \in Nat /\ i[w] \in Nat /\ num_reg \in Nat
    BY WriterTypes
<1>2. \/ Base <= registo[r] /\ registo[r] < Base + NumBlocks
      \/ OtherBase <= registo[r] /\ registo[r] < OtherBase + NumBlocks
  <2>1. Moved(w) \in Nat
      BY <1>1 DEF Moved
  <2>2. QED
      BY <1>1, <2>1 DEF LogInv, WhereInv
<1>3. QED
    BY <1>1, <1>2

(* With one writer, and arrays of at least as many blocks as there are registers, a register
   that was written holds the block of its last write, also while a flip is half done
   (logrw.c 152-250). *)
THEOREM UpToDateCorrect ==
    ASSUME NEW w, WriterThreads = {w}, num_reg <= NumBlocks
    PROVE  SafetySpec => []UpToDate
<1>1. BaseInv /\ LogInv(w) => UpToDate
  <2> SUFFICES ASSUME BaseInv, LogInv(w), NEW r \in Registers, latest[r] # None
               PROVE  registo[r] < 2 * NumBlocks /\ Content(r) = latest[r]
      BY DEF UpToDate
  <2>1. w \in Threads
      BY LogAssumption
  <2>2. QED
      BY <2>1, InRange DEF LogInv, Holds
<1>2. QED
    BY <1>1, BaseInvariance, LogInvariance, PTL

(* No two registers that were written share a block, with one writer
   (tests/tests-1/tests-IA/Readme-tests-IA.txt 133-135). *)
THEOREM OwnBlockCorrect ==
    ASSUME NEW w, WriterThreads = {w}, num_reg <= NumBlocks
    PROVE  SafetySpec => []OwnBlock
<1>1. LogInv(w) => OwnBlock
    BY DEF LogInv
<1>2. QED
    BY <1>1, LogInvariance, PTL

-----------------------------------------------------------------------------
(* The log is a register file *)

(* A read has in hand where its register is, since nobody writes while it holds the lock as
   a writer; a write that is over has been made. *)
AnswerInv(t) ==
    /\ pc[t] = "fetch" /\ req[t].op = "read" => indice[t] = registo[req[t].reg]
    /\ pc[t] = "leave" /\ req[t].op = "write" => i[t] = num_reg /\ ret[t] = "ok"

(* A thread's step is not seen in what another has in hand. *)
LEMMA OthersUntouched ==
    ASSUME BaseInv, NEW t \in Threads, NEW u \in Threads, u # t,
           Call(t) \/ Enter(t) \/ Work(t)
    PROVE  /\ pc'[u] = pc[u] /\ req'[u] = req[u] /\ ret'[u] = ret[u] /\ i'[u] = i[u]
           /\ indice'[u] = indice[u]
<1>1. /\ pc \in [Threads -> PCs] /\ i \in [Threads -> 0 .. num_reg]
      /\ req \in [Threads -> Requests \cup {None}]
      /\ ret \in [Threads -> Data \cup {Blank, None, "ok", "failed"}]
      /\ indice \in [Threads -> Nat]
    BY DEF BaseInv, TypeOK
<1>2. CASE Call(t) \/ Enter(t) \/ Return(t)
    BY <1>1, <1>2 DEF Call, Enter, Return, Goto, locals
<1>3. CASE \/ First(t) \/ Second(t) \/ RoomInFirst(t) \/ RoomInSecond(t)
           \/ Flip(t) \/ Clear(t) \/ Add(t)
    BY <1>1, <1>3 DEF First, Second, RoomInFirst, RoomInSecond, Straight, GoesTo, Answer, Flip,
                      Clear, Add, Goto, locals
<1>4. CASE Copy(t)
    BY <1>1, <1>4 DEF Copy, NextRound, Goto
<1>5. CASE Store(t)
    BY <1>1, <1>5 DEF Store, NextRound, Answer, Goto
<1>6. CASE Point(t) \/ Advance(t)
    BY <1>1, <1>6 DEF Point, Advance, NextRound, Answer, Goto, locals
<1>7. CASE Index(t) \/ Fetch(t)
    BY <1>1, <1>7 DEF Index, Fetch, Answer, Goto, locals
<1>8. QED
    BY <1>2, <1>3, <1>4, <1>5, <1>6, <1>7 DEF Work

(* The lock keeps a read and the write apart. *)
LEMMA ReadExcludesWrite ==
    ASSUME BaseInv, NEW t \in Threads, NEW u \in Threads,
           pc[t] \in {"index", "fetch"}, req[t].op = "read", pc[u] \in WritePCs
    PROVE  FALSE
<1>1. PERMISSOES[t] = "writing"
    BY DEF BaseInv, CallInv
<1>2. PERMISSOES[u] = "reading"
    BY DEF BaseInv, CallInv, WritePCs, TestPCs, CopyPCs
<1>3. t \in Lock!Writers /\ u \in Lock!Readers
    BY <1>1, <1>2 DEF Lock!Writers, Lock!Readers
<1>4. QED
    BY <1>3 DEF BaseInv, Lock!Exclusion

(* Only a write changes where a register is. *)
LEMMA RegistoChanges ==
    ASSUME NEW t \in Threads, Call(t) \/ Enter(t) \/ Work(t), registo' # registo
    PROVE  pc[t] \in WritePCs
BY DEF Call, Enter, Work, First, Second, RoomInFirst, RoomInSecond, Flip, Clear, Copy, Store,
       Point, Add, Advance, Index, Fetch, Return, log, WritePCs, TestPCs, CopyPCs

LEMMA AnswerKept ==
    ASSUME BaseInv, BaseInv', NEW w, WriterThreads = {w}, num_reg < NumBlocks,
           FreeInv(w), LogInv(w), \A t \in Threads : AnswerInv(t), [Next]_vars
    PROVE  \A t \in Threads : AnswerInv(t)'
<1>1. CASE UNCHANGED vars
    BY <1>1 DEF vars, log, locals, AnswerInv
<1>2. ASSUME NEW u \in Threads, Call(u) \/ Enter(u) \/ Work(u), NEW t \in Threads
      PROVE  AnswerInv(t)'
  <2>1. CASE t # u
    <3>1. /\ pc'[t] = pc[t] /\ req'[t] = req[t] /\ ret'[t] = ret[t] /\ i'[t] = i[t]
          /\ indice'[t] = indice[t]
        BY <1>2, <2>1, OthersUntouched
    <3>2. ASSUME pc[t] = "fetch", req[t].op = "read" PROVE registo' = registo
        BY <1>2, <3>2, ReadExcludesWrite, RegistoChanges
    <3>3. QED
        BY <1>2, <3>1, <3>2 DEF AnswerInv
  <2>2. CASE t = u
    <3>1. /\ pc \in [Threads -> PCs] /\ i \in [Threads -> 0 .. num_reg]
          /\ ret \in [Threads -> Data \cup {Blank, None, "ok", "failed"}]
          /\ indice \in [Threads -> Nat]
        BY DEF BaseInv, TypeOK
    <3>2. CASE \/ Call(t) \/ Enter(t) \/ Return(t) \/ Flip(t) \/ Clear(t) \/ Copy(t)
               \/ Point(t) \/ Add(t)
      <4>1. pc'[t] \notin {"fetch", "leave"}
          BY <3>1, <3>2 DEF Call, Enter, Return, Flip, Clear, Copy, NextRound, Point, Add,
                            Goto, Entry
      <4>2. QED
          BY <4>1 DEF AnswerInv
    <3>8. CASE First(t) \/ Second(t) \/ RoomInFirst(t) \/ RoomInSecond(t)
      <4>1. t = w
          BY <3>8, OnlyTheWriter
             DEF First, Second, RoomInFirst, RoomInSecond, WritePCs, TestPCs
      <4>2. pc'[t] \notin {"fetch", "leave"}
          BY <3>8, <4>1, TestEffect
      <4>3. QED
          BY <4>2 DEF AnswerInv
    <3>3. CASE Store(t)
      <4>1. t = w /\ pc[w] = "store" /\ w \in Threads
          BY <3>3, OnlyTheWriter DEF Store, WritePCs, CopyPCs
      <4>2. Place(to[w], livre) \in Blocks
          BY <4>1, PlaceOfFree DEF LogInv, RoundsInv, Copying, CopyPCs
      <4>3. pc'[t] = "point"
          BY <3>3, <4>1, <4>2, StoreEffect
      <4>4. QED
          BY <4>3 DEF AnswerInv
    <3>4. CASE Advance(t)
      <4>1. \/ pc'[t] = "copy"
            \/ i[t] = num_reg /\ i'[t] = i[t] /\ ret'[t] = "ok" /\ pc'[t] = "leave"
          BY <3>1, <3>4, AdvanceEffect
      <4>2. QED
          BY <4>1 DEF AnswerInv
    <3>5. CASE Index(t)
      <4>1. pc'[t] = "fetch" /\ indice'[t] = registo[req[t].reg] /\ req' = req /\ registo' = registo
          BY <3>1, <3>5 DEF Index, Goto, log
      <4>2. QED
          BY <4>1 DEF AnswerInv
    <3>6. CASE Fetch(t)
      <4>1. pc'[t] = "leave" /\ req' = req /\ req[t].op # "write"
          BY <3>1, <3>6 DEF Fetch, Answer, Goto, BaseInv, CallInv
      <4>2. QED
          BY <4>1 DEF AnswerInv
    <3>7. QED
        BY <1>2, <2>2, <3>2, <3>3, <3>4, <3>5, <3>6, <3>8 DEF Work
  <2>3. QED
      BY <2>1, <2>2
<1>3. QED
    BY <1>1, <1>2 DEF Next

(* What a caller sees of a thread: the calls that are reads or writes, and their answers. *)
ReqOf(t) == IF req[t] # None /\ req[t].op \in {"read", "write"} THEN req[t] ELSE None

AnsOf(t) ==
    IF req[t] = None THEN None
    ELSE CASE req[t].op = "dump" -> None
           [] req[t].op = "write" /\ ret[t] = None /\ TookEffect(t) -> "ok"
           [] OTHER -> ret[t]

Reqs == [t \in Threads |-> ReqOf(t)]
Anss == [t \in Threads |-> AnsOf(t)]

(* A step of t changes the abstract state of t only. *)
LEMMA MappedStep ==
    ASSUME BaseInv, NEW t \in Threads, Call(t) \/ Enter(t) \/ Work(t)
    PROVE  /\ Reqs' = [Reqs EXCEPT ![t] = ReqOf(t)']
           /\ Anss' = [Anss EXCEPT ![t] = AnsOf(t)']
           /\ ReqOf(t)' = ReqOf(t) => Reqs' = Reqs
           /\ AnsOf(t)' = AnsOf(t) => Anss' = Anss
<1>1. ASSUME NEW u \in Threads \ {t} PROVE ReqOf(u)' = ReqOf(u) /\ AnsOf(u)' = AnsOf(u)
  <2>1. pc'[u] = pc[u] /\ req'[u] = req[u] /\ ret'[u] = ret[u] /\ i'[u] = i[u]
      BY <1>1, OthersUntouched
  <2>2. QED
      BY <2>1 DEF ReqOf, AnsOf, TookEffect
<1>2. QED
    BY <1>1 DEF Reqs, Anss

(* The abstract state and its actions, in the terms above. *)
LEMMA AbstractActions ==
    ASSUME NEW t \in Threads
    PROVE  /\ Registered!Call(t) <=>
                /\ Reqs[t] = None
                /\ \E q \in Registered!Reads \cup Registered!Writes :
                      Reqs' = [Reqs EXCEPT ![t] = q]
                /\ latest' = latest /\ Anss' = Anss
           /\ Registered!Write(t) <=>
                /\ Reqs[t] \in Registered!Writes /\ Anss[t] = None
                /\ latest' = [latest EXCEPT ![Reqs[t].reg] = Reqs[t].data]
                /\ Anss' = [Anss EXCEPT ![t] = "ok"]
                /\ Reqs' = Reqs
           /\ Registered!Read(t) <=>
                /\ Reqs[t] \in Registered!Reads /\ Anss[t] = None
                /\ \E v \in Registered!Answers(Reqs[t].reg) :
                      Anss' = [Anss EXCEPT ![t] = v]
                /\ latest' = latest /\ Reqs' = Reqs
           /\ Registered!Return(t) <=>
                /\ Anss[t] # None
                /\ Reqs' = [Reqs EXCEPT ![t] = None]
                /\ Anss' = [Anss EXCEPT ![t] = None]
                /\ latest' = latest
<1>1. Registered!Call(t) <=>
                /\ Reqs[t] = None
                /\ \E q \in Registered!Reads \cup Registered!Writes :
                      Reqs' = [Reqs EXCEPT ![t] = q]
                /\ latest' = latest /\ Anss' = Anss
    BY DEF Registered!Call, Reqs, Anss, ReqOf, AnsOf
<1>2. Registered!Write(t) <=>
                /\ Reqs[t] \in Registered!Writes /\ Anss[t] = None
                /\ latest' = [latest EXCEPT ![Reqs[t].reg] = Reqs[t].data]
                /\ Anss' = [Anss EXCEPT ![t] = "ok"]
                /\ Reqs' = Reqs
    BY DEF Registered!Write, Reqs, Anss, ReqOf, AnsOf
<1>3. Registered!Read(t) <=>
                /\ Reqs[t] \in Registered!Reads /\ Anss[t] = None
                /\ \E v \in Registered!Answers(Reqs[t].reg) :
                      Anss' = [Anss EXCEPT ![t] = v]
                /\ latest' = latest /\ Reqs' = Reqs
    BY DEF Registered!Read, Reqs, Anss, ReqOf, AnsOf
<1>4. Registered!Return(t) <=>
                /\ Anss[t] # None
                /\ Reqs' = [Reqs EXCEPT ![t] = None]
                /\ Anss' = [Anss EXCEPT ![t] = None]
                /\ latest' = latest
    BY DEF Registered!Return, Reqs, Anss, ReqOf, AnsOf
<1>5. QED
    BY <1>1, <1>2, <1>3, <1>4

(* What the caller does not see. *)
LEMMA Stutter ==
    ASSUME Reqs' = Reqs, Anss' = Anss, latest' = latest
    PROVE  UNCHANGED Registered!regvars
BY DEF Registered!regvars, Reqs, Anss, ReqOf, AnsOf

(* What a thread that is over with its call shows, before and after. *)
LEMMA Shown ==
    ASSUME BaseInv, NEW t \in Threads
    PROVE  /\ Reqs[t] = ReqOf(t) /\ Anss[t] = AnsOf(t)
           /\ req[t] = None => ReqOf(t) = None /\ AnsOf(t) = None
           /\ req[t] # None /\ req[t].op = "dump" => ReqOf(t) = None /\ AnsOf(t) = None
           /\ req[t] # None /\ req[t].op = "read" =>
                ReqOf(t) = req[t] /\ ReqOf(t) \in Registered!Reads /\ AnsOf(t) = ret[t]
           /\ req[t] # None /\ req[t].op = "write" =>
                /\ ReqOf(t) = req[t] /\ ReqOf(t) \in Registered!Writes
                /\ AnsOf(t) = IF ret[t] = None /\ TookEffect(t) THEN "ok" ELSE ret[t]
           /\ req[t] # None => req[t].op \in {"read", "write", "dump"}
<1>1. req[t] \in Requests \cup {None}
    BY DEF BaseInv, TypeOK
<1>2. req[t] # None => req[t].op \in {"read", "write", "dump"}
    BY <1>1, RequestShape
<1>3. req[t] # None /\ req[t].op = "read" => req[t] \in Registered!Reads
    BY <1>1 DEF Requests, Registered!Reads
<1>4. req[t] # None /\ req[t].op = "write" => req[t] \in Registered!Writes
    BY <1>1 DEF Requests, Registered!Writes
<1>5. Reqs[t] = ReqOf(t) /\ Anss[t] = AnsOf(t)
    BY DEF Reqs, Anss
<1>6. QED
    BY <1>2, <1>3, <1>4, <1>5 DEF ReqOf, AnsOf

(* A call of the log begins a call of the register file, or a dump. *)
LEMMA CallImplements ==
    ASSUME BaseInv, BaseInv', NEW t \in Threads, Call(t)
    PROVE  Registered!Call(t) \/ UNCHANGED Registered!regvars
<1>1. /\ req[t] = None /\ req'[t] # None /\ latest' = latest
      /\ pc'[t] = "ask" /\ ret'[t] = None
  <2>1. PICK q \in Requests : req' = [req EXCEPT ![t] = q]
      BY DEF Call
  <2>2. q # None
      BY RequestShape
  <2>3. QED
      BY <2>1, <2>2 DEF Call, Goto, BaseInv, TypeOK, CallInv
<1>2. Reqs[t] = None /\ AnsOf(t) = None
    BY <1>1, Shown
<1>3. ~TookEffect(t)'
    BY <1>1 DEF TookEffect
<1>4. AnsOf(t)' = None
    BY <1>1, <1>3 DEF AnsOf
<1>5. Anss' = Anss /\ Reqs' = [Reqs EXCEPT ![t] = ReqOf(t)']
    BY <1>2, <1>4, MappedStep
<1>6. CASE req'[t].op = "dump"
  <2>1. ReqOf(t)' = None
      BY <1>6 DEF ReqOf
  <2>2. Reqs' = Reqs
      BY <1>2, <2>1, Shown, MappedStep
  <2>3. QED
      BY <1>1, <1>5, <2>2, Stutter
<1>7. CASE req'[t].op # "dump"
  <2>1. req'[t] \in Requests
      BY <1>1 DEF BaseInv, TypeOK
  <2>2. req'[t].op \in {"read", "write"} /\ req'[t] \in Registered!Reads \cup Registered!Writes
      BY <1>7, <2>1 DEF Requests, Registered!Reads, Registered!Writes
  <2>3. ReqOf(t)' = req'[t]
      BY <1>1, <2>2 DEF ReqOf
  <2>4. QED
      BY <1>1, <1>2, <1>5, <2>2, <2>3, AbstractActions
<1>8. QED
    BY <1>6, <1>7

(* What goes on in a call before it takes effect is not seen. *)
LEMMA Unseen ==
    ASSUME BaseInv, NEW t \in Threads, Call(t) \/ Enter(t) \/ Work(t),
           req' = req, latest' = latest, AnsOf(t)' = AnsOf(t)
    PROVE  UNCHANGED Registered!regvars
<1>1. ReqOf(t)' = ReqOf(t)
    BY DEF ReqOf
<1>2. QED
    BY <1>1, MappedStep, Stutter

(* The write takes effect when its register is made to point to the block. *)
LEMMA PointImplements ==
    ASSUME BaseInv, NEW t \in Threads, Point(t)
    PROVE  Registered!Write(t) \/ UNCHANGED Registered!regvars
<1>1. /\ pc[t] = "point" /\ pc'[t] = "add" /\ req' = req /\ i' = i /\ ret' = ret
      /\ ret[t] = None /\ req[t] # None /\ req[t].op = "write" /\ Work(t)
    BY PointEffect DEF BaseInv, TypeOK, CallInv, WritePCs, CopyPCs, Work
<1>2. ~TookEffect(t) /\ AnsOf(t) = None
  <2>1. ~TookEffect(t)
      BY <1>1 DEF TookEffect
  <2>2. QED
      BY <1>1, <2>1, Shown
<1>3. CASE i[t] < num_reg /\ latest' = latest
  <2>1. i[t] \in Nat /\ num_reg \in Nat
      BY LogAssumption DEF BaseInv, TypeOK
  <2>2. ~TookEffect(t)'
      BY <1>1, <1>3, <2>1 DEF TookEffect
  <2>3. AnsOf(t)' = None
      BY <1>1, <2>2 DEF AnsOf
  <2>4. QED
      BY <1>1, <1>2, <1>3, <2>3, Unseen
<1>4. CASE i[t] = num_reg /\ latest' = [latest EXCEPT ![req[t].reg] = req[t].data]
  <2>1. TookEffect(t)'
      BY <1>1, <1>4 DEF TookEffect
  <2>2. AnsOf(t)' = "ok"
      BY <1>1, <2>1 DEF AnsOf
  <2>3. ReqOf(t)' = ReqOf(t)
      BY <1>1 DEF ReqOf
  <2>4. Reqs' = Reqs /\ Anss' = [Anss EXCEPT ![t] = "ok"]
      BY <1>1, <2>2, <2>3, MappedStep
  <2>5. Reqs[t] = req[t] /\ Reqs[t] \in Registered!Writes /\ Anss[t] = None
      BY <1>1, <1>2, Shown
  <2>6. QED
      BY <1>4, <2>4, <2>5, AbstractActions
<1>5. QED
    BY <1>3, <1>4, PointEffect

(* A read answers with the block its register points to. *)
LEMMA FetchImplements ==
    ASSUME BaseInv, NEW w \in Threads, LogInv(w), NEW t \in Threads, AnswerInv(t), Fetch(t)
    PROVE  Registered!Read(t) \/ UNCHANGED Registered!regvars
<1>1. /\ pc[t] = "fetch" /\ pc'[t] = "leave" /\ req' = req /\ latest' = latest
      /\ req[t] # None /\ req[t].op # "write" /\ req[t] \in Requests /\ ret[t] = None
      /\ req[t].reg \in Registers /\ Work(t)
  <2>1. req[t] # None /\ req[t] \in Requests /\ pc[t] = "fetch"
      BY DEF BaseInv, TypeOK, CallInv, Fetch
  <2>2. req[t].reg \in Registers
      BY <2>1, RequestShape
  <2>3. QED
      BY <2>1, <2>2 DEF BaseInv, TypeOK, CallInv, Fetch, Answer, Goto, Work
<1> DEFINE r == req[t].reg
<1>2. CASE req[t].op = "dump"
  <2>1. AnsOf(t) = None /\ AnsOf(t)' = None
      BY <1>1, <1>2 DEF AnsOf
  <2>2. QED
      BY <1>1, <2>1, Unseen
<1>3. CASE req[t].op = "read"
  <2>1. indice[t] = registo[r]
      BY <1>1, <1>3 DEF AnswerInv
  <2>2. registo[r] \in Nat /\ registo[r] < 2 * NumBlocks /\ NumBlocks \in Nat
      BY <1>1, InRange, WriterTypes
  <2>3. Place(ReadFrom(registo[r]), registo[r]) \in Blocks
      BY <2>2 DEF Place, ReadFrom, Blocks
  <2>4. ret'[t] = Content(r)
      BY <1>3, <2>1, <2>3 DEF Fetch, Answer, Content, BaseInv, TypeOK
  <2>5. Content(r) \in Data \cup {Blank}
      BY <2>3 DEF Content, ReadFrom, BaseInv, TypeOK
  <2>6. Content(r) \in Registered!Answers(r)
      BY <1>1, <2>5 DEF Registered!Answers, LogInv, Holds
  <2>7. AnsOf(t)' = Content(r)
      BY <1>1, <1>3, <2>4 DEF AnsOf
  <2>8. ReqOf(t)' = ReqOf(t)
      BY <1>1 DEF ReqOf
  <2>9. Reqs' = Reqs /\ Anss' = [Anss EXCEPT ![t] = Content(r)]
      BY <1>1, <2>7, <2>8, MappedStep
  <2>10. /\ Reqs[t] \in Registered!Reads /\ Reqs[t].reg = r /\ Anss[t] = None
      BY <1>1, <1>3, Shown
  <2>11. QED
      BY <1>1, <2>6, <2>9, <2>10, AbstractActions
<1>4. QED
    BY <1>1, <1>2, <1>3, RequestShape

(* The call of the register file returns when that of the log does. *)
LEMMA ReturnImplements ==
    ASSUME BaseInv, NEW t \in Threads, Return(t)
    PROVE  Registered!Return(t) \/ UNCHANGED Registered!regvars
<1>1. /\ pc[t] = "leave" /\ req[t] # None /\ ret[t] # None /\ req'[t] = None
      /\ latest' = latest /\ Work(t)
    BY DEF Return, BaseInv, TypeOK, CallInv, Work
<1>2. ReqOf(t)' = None /\ AnsOf(t)' = None
    BY <1>1 DEF ReqOf, AnsOf
<1>3. Reqs' = [Reqs EXCEPT ![t] = None] /\ Anss' = [Anss EXCEPT ![t] = None]
    BY <1>1, <1>2, MappedStep
<1>4. CASE req[t].op = "dump"
  <2>1. Reqs' = Reqs /\ Anss' = Anss
      BY <1>1, <1>2, <1>4, Shown, MappedStep
  <2>2. QED
      BY <1>1, <2>1, Stutter
<1>5. CASE req[t].op # "dump"
  <2>1. Anss[t] # None
      BY <1>1, <1>5, Shown
  <2>2. QED
      BY <1>1, <1>3, <2>1, AbstractActions
<1>6. QED
    BY <1>4, <1>5

(* The end of a write's last round was seen before, that of another round is not seen. *)
LEMMA AdvanceImplements ==
    ASSUME BaseInv, NEW t \in Threads, Advance(t)
    PROVE  UNCHANGED Registered!regvars
<1>1. /\ pc[t] = "advance" /\ req' = req /\ latest' = latest /\ Work(t)
      /\ ret[t] = None /\ req[t] # None /\ req[t].op = "write"
    BY AdvanceEffect DEF BaseInv, TypeOK, CallInv, WritePCs, CopyPCs, Work, Advance
<1>2. CASE i[t] = num_reg /\ ret'[t] = "ok"
  <2>1. TookEffect(t)
      BY <1>1, <1>2 DEF TookEffect
  <2>2. AnsOf(t) = "ok"
      BY <1>1, <2>1, Shown
  <2>3. AnsOf(t)' = "ok"
      BY <1>1, <1>2, ValueAssumption DEF AnsOf
  <2>4. QED
      BY <1>1, <2>2, <2>3, Unseen
<1>3. CASE i[t] < num_reg /\ pc'[t] = "copy" /\ ret'[t] = None
  <2>1. i[t] \in Nat /\ num_reg \in Nat
      BY LogAssumption DEF BaseInv, TypeOK
  <2>2. ~TookEffect(t) /\ ~TookEffect(t)'
      BY <1>1, <1>3, <2>1 DEF TookEffect
  <2>3. AnsOf(t) = None
      BY <1>1, <2>2, Shown
  <2>4. AnsOf(t)' = None
      BY <1>1, <1>3, <2>2 DEF AnsOf
  <2>5. QED
      BY <1>1, <2>3, <2>4, Unseen
<1>4. QED
  <2>1. pc \in [Threads -> PCs] /\ ret \in [Threads -> Data \cup {Blank, None, "ok", "failed"}]
      BY DEF BaseInv, TypeOK
  <2>2. (i[t] < num_reg /\ pc'[t] = "copy" /\ ret' = ret) \/ (i[t] = num_reg /\ ret'[t] = "ok")
      BY <2>1 DEF Advance, NextRound, Answer, Goto
  <2>3. QED
      BY <1>1, <1>2, <1>3, <2>2

LEMMA AddImplements ==
    ASSUME BaseInv, NEW t \in Threads, Add(t)
    PROVE  UNCHANGED Registered!regvars
<1>1. /\ pc[t] = "add" /\ pc'[t] = "advance" /\ i' = i /\ ret' = ret
      /\ req' = req /\ latest' = latest /\ Work(t)
    BY AddEffect DEF Work
<1>2. TookEffect(t)' <=> TookEffect(t)
    BY <1>1 DEF TookEffect
<1>3. AnsOf(t)' = AnsOf(t)
    BY <1>1, <1>2 DEF AnsOf
<1>4. QED
    BY <1>1, <1>3, Unseen

(* Every other step is made before the call takes effect. *)
LEMMA OthersImplement ==
    ASSUME BaseInv, BaseInv', NEW t \in Threads, pc'[t] # "leave",
           \/ Enter(t) \/ First(t) \/ Second(t) \/ RoomInFirst(t) \/ RoomInSecond(t)
           \/ Flip(t) \/ Clear(t) \/ Copy(t) \/ Store(t) \/ Index(t)
    PROVE  UNCHANGED Registered!regvars
<1>1. /\ req' = req /\ latest' = latest /\ (Enter(t) \/ Work(t))
      /\ pc[t] \in {"ask", "index", "flip", "clear", "copy", "store"} \cup TestPCs
    BY DEF Enter, First, Second, RoomInFirst, RoomInSecond, Flip, Clear, Copy, Store, Index,
           Work, locals, TestPCs
<1>a. /\ pc[t] \notin {"idle", "add", "advance", "leave"}
      /\ pc'[t] \notin {"add", "advance", "leave"}
  <2>1. pc \in [Threads -> PCs]
      BY DEF BaseInv, TypeOK
  <2>2. pc'[t] \notin {"add", "advance"}
      BY <2>1 DEF Enter, Entry, First, Second, RoomInFirst, RoomInSecond, Straight, GoesTo, Flip,
                  Clear, Copy, Store, Index, NextRound, Answer, Goto
  <2>3. QED
      BY <1>1, <2>2 DEF TestPCs
<1>2. ret[t] = None /\ ret'[t] = None
    BY <1>a DEF BaseInv, CallInv
<1>3. ~TookEffect(t) /\ ~TookEffect(t)'
    BY <1>a DEF TookEffect
<1>4. req[t] # None /\ req[t].op \in {"read", "write", "dump"}
    BY <1>a, Shown DEF BaseInv, CallInv
<1>5. AnsOf(t) = None /\ AnsOf(t)' = None
    BY <1>1, <1>2, <1>3, <1>4 DEF AnsOf
<1>6. QED
    BY <1>1, <1>5, Unseen

(* Every step of the log is a step of the register file, or is not seen. *)
LEMMA StepImplements ==
    ASSUME BaseInv, BaseInv', NEW w, WriterThreads = {w}, num_reg < NumBlocks,
           FreeInv(w), LogInv(w), \A t \in Threads : AnswerInv(t), [Next]_vars
    PROVE  [Registered!Next]_(Registered!regvars)
<1>1. CASE UNCHANGED vars
  <2>1. Reqs' = Reqs /\ Anss' = Anss /\ latest' = latest
      BY <1>1 DEF vars, log, locals, Reqs, Anss, ReqOf, AnsOf, TookEffect
  <2>2. QED
      BY <2>1, Stutter
<1>2. ASSUME NEW t \in Threads, Call(t) \/ Enter(t) \/ Work(t)
      PROVE  Registered!Next \/ UNCHANGED Registered!regvars
  <2>1. w \in Threads
      BY LogAssumption
  <2>2. CASE Store(t)
    <3>1. t = w /\ pc[w] = "store"
        BY <2>2, OnlyTheWriter DEF Store, WritePCs, CopyPCs
    <3>2. Place(to[w], livre) \in Blocks
        BY <2>1, <3>1, PlaceOfFree DEF LogInv, RoundsInv, Copying, CopyPCs
    <3>3. pc'[t] = "point"
        BY <2>1, <2>2, <3>1, <3>2, StoreEffect
    <3>4. QED
        BY <2>2, <3>3, OthersImplement
  <2>3. CASE Enter(t) \/ Flip(t) \/ Clear(t) \/ Copy(t) \/ Index(t)
    <3>1. pc'[t] # "leave"
        BY <2>3 DEF BaseInv, TypeOK, Enter, Entry, Flip, Clear, Copy, NextRound, Index, Goto
    <3>2. QED
        BY <2>3, <3>1, OthersImplement
  <2>10. CASE First(t) \/ Second(t) \/ RoomInFirst(t) \/ RoomInSecond(t)
    <3>1. t = w
        BY <2>10, OnlyTheWriter
           DEF First, Second, RoomInFirst, RoomInSecond, WritePCs, TestPCs
    <3>2. pc'[t] # "leave"
        BY <2>10, <3>1, TestEffect
    <3>3. QED
        BY <2>10, <3>2, OthersImplement
  <2>11. CASE Add(t)
      BY <2>11, AddImplements
  <2>4. CASE Call(t)
      BY <2>4, CallImplements DEF Registered!Next
  <2>5. CASE Point(t)
      BY <2>5, PointImplements DEF Registered!Next
  <2>6. CASE Advance(t)
      BY <2>6, AdvanceImplements
  <2>7. CASE Fetch(t)
      BY <2>1, <2>7, FetchImplements DEF Registered!Next
  <2>8. CASE Return(t)
      BY <2>8, ReturnImplements DEF Registered!Next
  <2>9. QED
      BY <1>2, <2>2, <2>3, <2>4, <2>5, <2>6, <2>7, <2>8, <2>10, <2>11 DEF Work
<1>3. QED
    BY <1>1, <1>2 DEF Next

LEMMA AnswerInvariance ==
    ASSUME NEW w, WriterThreads = {w}, num_reg < NumBlocks
    PROVE  SafetySpec => [](\A t \in Threads : AnswerInv(t))
<1>1. Init => \A t \in Threads : AnswerInv(t)
    BY DEF Init, AnswerInv
<1>2. num_reg <= NumBlocks
    BY LogAssumption DEF NumBlocks
<1>3. /\ BaseInv /\ BaseInv' /\ FreeInv(w) /\ LogInv(w)
      /\ (\A t \in Threads : AnswerInv(t)) /\ [Next]_vars
      => (\A t \in Threads : AnswerInv(t))'
    BY AnswerKept
<1>4. QED
    BY <1>1, <1>2, <1>3, BaseInvariance, FreeInvariance, LogInvariance, PTL DEF SafetySpec

(* With one writer, any number of readers, and arrays of more blocks than there are
   registers, the log is the register file that include/logrw.h promises: no write fails,
   and a read answers with the last write of its register that took effect. *)
THEOREM Implements ==
    ASSUME NEW w, WriterThreads = {w}, num_reg < NumBlocks
    PROVE  SafetySpec => IsRegisterFile
<1>1. Init => Registered!Init
    BY DEF Init, Registered!Init
<1>2. num_reg <= NumBlocks
    BY LogAssumption DEF NumBlocks
<1>3. /\ BaseInv /\ BaseInv' /\ FreeInv(w) /\ LogInv(w)
      /\ (\A t \in Threads : AnswerInv(t)) /\ [Next]_vars
      => [Registered!Next]_(Registered!regvars)
    BY StepImplements
<1>4. QED
    BY <1>1, <1>2, <1>3, BaseInvariance, FreeInvariance, LogInvariance, AnswerInvariance, PTL
    DEF SafetySpec, IsRegisterFile, Registered!SafetySpec

=============================================================================
