# SO-proj in TLA+

TLA+ models of the user-level thread library (`src/sthread_lib`), the
log-structured register store (`src/logrw`) and the small file system on top of
them (`src/sofs`): what they promise, what the code does, checks with TLC
and proofs with TLAPS that the one follows from the other, and the places where
it does not.

## 1. The system

One process. A FUSE front end calls a file system, which reads and writes
blocks through a cache, or through a log of registers, or straight from an array
of blocks; the build chooses (`USE_CACHE`, `USE_LOG_SOFS`). The top-level `Makefile`, with
`TOPO=nocode` (its default) or `TOPO=sthreads`, builds the plain array; `sofs/Makefile`, called by
itself, builds the cache over the log. The cache and the log take locks of the thread library, which runs all threads on one processor and
takes it from them by a timer signal, unless it is built with
`DISABLE_TIME_SLICE`.

| component | state | operations | talks to |
|---|---|---|---|
| scheduler, join, sleep (`sthread_user.c` 81-433) | `active_thr`; the lists `exe`, `sleep`, `join`, `zombie`, `dead`; `Clock`; per thread `wake_time`, `join_tid`, `min_delay` | create, exit, yield, join, sleep, dispatcher | timer signal; queues |
| mutex, semaphores (435-582) | owner or counter, a queue, a spin lock | lock, unlock; wait, post | run queue |
| read-write lock (589-692) | four counters, a mutex, two semaphores | rdlock, wrlock, unlock | mutex, semaphores |
| monitor (698-791) | a mutex and a queue | enter, exit, wait, signal, signalall | mutex, run queue |
| queue (`queue.c`) | linked list, one recycled element shared by all queues | insert, remove, first, is_empty | allocator |
| time slices (`sthread_time_slice.c`) | signal disposition | `splx`, `clock_tick` | dispatcher |
| register log (`logrw.c`) | `registo` (register to block), `livre` (next free block), `array_activo`, two arrays | init, read, write with the flip, dump, load, store | blocks, read-write lock |
| blocks (`block.c`) | an array of blocks | new, read, write, load, store | memory, files |
| cache (`cache.c`) | hash of blocks, clean and dirty lists, a mutex | read, write, flush | blocks or log |
| file system (`fs.c`) | inode table, two bitmaps, their image on disk, directories | format, lookup, read, write, create, mkdir, readdir, truncate | blocks, log or cache |
| FUSE front end (`sofs.c`) | the mounted file system | FUSE calls | file system |
| facade, context switch, POSIX version, I/O delay | none of interest | forwarding | |

What is hard in each, and what makes it correct:

- *Scheduler.* A clock interrupt is an ordinary function call at any point where
  ticks are enabled, which is also inside another interrupt; when it gives the processor
  away, the rest of it runs later, against other lists. Correct when no thread is lost or queued twice, a join
  returns exactly when its target has ended, and everyone who can run does.
- *Read-write lock.* It tests under a mutex, sleeps outside it, and hands itself
  over with semaphores; a leaving writer lets in readers one at a time. Correct
  when it excludes, loses no wake-up, and starves nobody.
- *Log.* Every write moves a register; when an array is full, all registers move.
  Correct when reads return the last write, across flips and between concurrent
  calls.
- *File system.* Metadata live in memory and on disk, several steps apart; bitmaps,
  inodes and directories must agree, and writes are said to be atomic.
- *Front end.* Handles and names outlive truncations and other files' writes; calls fail
  half way when inodes, blocks or slots run out. Correct when every answer is the one that a
  directory of files would give.
- *Queues.* One removed element is kept for the next insertion into any queue.
- *uthash.* Two chains of pointers run through each element, and one of them is re-linked
  whenever the buckets double. Correct when lookups, order and sorting never notice.
- *Cache.* Blocks move between two lists and a hash (see section 6).

`PROJECT.json` lists each hazard at its line, with the property that would see
it go wrong, or the reason why none does yet.

## 2. Modules

| module | models | built on |
|---|---|---|
| `ReadersWriter` | what a read-write lock promises: an abstract specification | |
| `USync` | the processor with its run queue, and a mutex | |
| `RWLock` | the read-write lock with its mutex and semaphores | `USync`; refines `ReadersWriter` |
| `Monitor` | a monitor: enter, exit, wait, signal, signalall | `USync` |
| `RWLock_proofs` | theorems and proofs about `RWLock` | `RWLock`, TLAPS |
| `RegisterFile` | what the log promises: an abstract specification | |
| `Monitor_proofs` | theorems and proofs about `Monitor` | `Monitor`, TLAPS |
| `LogRW` | the log and its blocks, over the promise of the lock | `ReadersWriter`; refines `RegisterFile` |
| `LogRW_proofs` | theorems and proofs about `LogRW` | `LogRW`, TLAPS |
| `Sched` | a thread's life: create, yield, clock, exit, join, sleep | |
| `Sched_proofs` | theorems and proofs about `Sched` | `Sched`, TLAPS |
| `FileStore` | what the file system promises: an abstract specification | |
| `FS` | inodes, bitmaps, directories, blocks and the image of the metadata | refines `FileStore` |
| `FS_proofs` | theorems and proofs about `FS`, and that it implements `FileStore` | `FS`, TLAPS |
| `OneDirectory` | what the mounted file system shows to programs: an abstract specification | |
| `Sofs` | the FUSE calls over the file system, with the kernel's handles | `FS`; refines `OneDirectory` |
| `Sofs_proofs` | theorems and proofs about `Sofs` | `Sofs`, `FS_proofs` |
| `ThreadQueues` | what `queue.c` promises: an abstract specification | |
| `Queue` | the linked lists and their shared element | refines `ThreadQueues` |
| `Queue_proofs` | theorems and proofs about `Queue` | `Queue`, TLAPS |
| `HashTable` | what `uthash.h` promises: an abstract specification | |
| `Uthash` | the hash table of `uthash.h`: its links, and what each call does to them | refines `HashTable` |
| `UthashLoops` | the loops of its expansion and its sort, assignment by assignment | `Uthash` |
| `Uthash_proofs` | theorems and proofs about `Uthash` | `Uthash`, TLAPS |
| `MCRWLock`, `MCLogRW`, `MCSched`, `MCMonitor`, `MCFS`, `MCSofs`, `MCUthash` | instances for TLC | |

The two halves of the stack meet in `ReadersWriter`: `RWLock` is shown to keep
that promise and `LogRW` relies on nothing else of the lock. `Queue` is shown to be
sequences of threads, and the modules of the scheduler and the locks take it for that.
`Sofs` calls the operators and actions of `FS` themselves, not its promise.

### USync, RWLock

`pc[t]` is the statement at which thread `t` continues. Each call of a mutex or
semaphore operation is a step, and so is each stretch of code between two of
them; the loop that posts the readers (669-673) is a step a round. A clock tick
(`Tick`) may rotate the run queue between any two steps when `TimeSlice` is TRUE.

| action | code |
|---|---|
| `Call`, `Lock`, `RdTest` / `WrTest`, `Park`, `Wait`, `Relock`, `Done` | rdlock 629-643, wrlock 645-659 |
| `Release`, `Unlock`, `WriterUnlock`, `PostReaders`, `ReaderUnlock`, `Undone` | unlock 662-692 |
| `MutexLock`, `MutexUnlock`, `SemWait`, `SemPost` | 473-521, 542-577 |
| `Tick`, `Yield`, `Rotate`, `Dispatch` | 194-289, and the switch inside wait and lock |

Line 491 puts a thread that finds the mutex taken back in the run queue, so that
it goes on without the mutex. `Requeue` = TRUE is that code; FALSE is the mutex
that `include/sthread.h` 79 describes. Only two combinations are sound, and they
are what is checked and proved: the code as it is without time slices, where the
mutex turns out never to be contended, and the promised mutex with time slices,
which shows that nothing else in the lock is wrong: a statement about the rest of the
lock, not about the program, whose own mutex breaks it. The third combination is the
finding `mutex_contended`. A tick between the two insertions of a contended `mutex_lock`
(487-489) is one more round of the run queue, as a tick after the call is.

The spin locks `l` are left out: each operation of the mutex and the semaphores is
one step. `sem_wait` enters the semaphore's queue (551) before it disables ticks
(554); the model takes both together, and the hazards name it.

### Monitor

`Enter` and `Exit` are the mutex's operations (723-731); `Wait`, `Leave`, `Sleep` are the
three parts of monitor_wait (733-755), with ticks in between; `Signal` and `SignalAll` (757-791)
move threads to the mutex's queue, one step each under its spin lock. A client
calls the last three operations only when it is the owner; otherwise they print and return.
When the last client goes to wait, the code takes the first of an empty list: `active` is
then `NoThread`.

The mutex is the code's own (`Requeue` = TRUE; `FALSE`, the promised one, is proved about as well). That
more than one client then executes inside is plain: `t1` enters and gives way, and `t2` enters through
line 491 without the mutex; no time slices are needed. What the monitor keeps all the same
is said per thread. `requeued[t]` is a history variable that counts how often line 491 has put `t` in two
queues. While it is 0, `t` executes inside only as the owner (`OneInside`), whatever those do that
are inside without owning the mutex: their signals, waits and exits are refused by the tests of the owner.
`Accounted` counts the places of a thread in the three queues: one, or two between `Leave` and
`Sleep` (a tick in between puts it in the run queue, and a signal and an unlock may put it there once
more), and one more for good with each entry through line 491.

### LogRW

Blocks are numbered through both arrays, as in the code; a block's content is a
value. A step is one access to the shared structure, or the read of `livre` together with the
`block_write` or the assignment to `registo` that uses it.

| action | code (`logrw.c`) |
|---|---|
| `First`, `Second` | is array 1, is array 2 full: 163, 192 |
| `Flip`, `Clear` | `array_activo` = 1 or 0 (164, 193), `livre` = 0 (194) |
| `RoomInFirst`, `RoomInSecond` | the last two tests, 223 and 237; after them the call fails (247-249) |
| `Copy`, `Store`, `Point` | `block_read`, `block_write`, `registo[..] = livre` of 165-182, 195-213, 224-245 |
| `Add`, `Advance` | `livre += 1` reads `livre`, and stores the sum |
| `Index`, `Fetch` | reading `registo`, and the block: 119-130, 313-342 |

The two flips and the two plain writes of `logrw_write` are the same text with the arrays
exchanged, and one set of actions with the array in `to[t]`; the caller's own write is round
`num_reg` of the copying loop. Each of the four tests reads `livre` anew, so that a second writer may make
all of them fail. `array_dim` is a constant that nothing uses but the test of
`logrw_init`: the number of blocks is `bloco_dim`, because line 69 calls
`block_new` with its arguments exchanged. `latest` is a history variable: the
last block each register was made to point to.

### Sched

Create, yield, exit, join and sleep run with ticks disabled (`splx`) and are one step each. The clock
interrupt does not: yield, which it calls at line 245, ends with `splx(LOW)` (288), and
`clock_tick` unblocks the signal before it calls the dispatcher (76-79). So a tick may fall into a
handler, and the rest of a handler, when its thread is dispatched again, meets lists that others
have changed. `<<t, n>>` is the n-th handler on the stack of thread `t`; `at` says at which statement
it is, `hand` and `tmp` are its local variables `thread` and `tmp_queue`.

| action | code (`sthread_user.c`) |
|---|---|
| `Create`, `Yield`, `Exit`, `Sleep` | 114-143, 267-289, 146-191, 404-433 |
| `Join`, `JoinReturn`, `JoinFreed` | 305-391, 393-397; 329 with a target whose memory has been freed |
| `Tick` | `clock_tick`, and the dispatcher up to its walks along the lists, 194-241 |
| `Preempt` | 242-249: the processor goes to another thread, or not |
| `ScanTest`, `ScanRemove`, `ScanCompare`, `ScanWake`, `ScanKeep` | 251, 252, 253, 254-256, 257-259 |
| `ScanDelete`, `ScanAssign` | 261, 262 |

A tick never falls into `queue.c` (see Queue). The walks along the lists that count threads (202-236) are the
place `"count"` of a handler. `delete_queue` frees the threads in the list it is given (line 24 of
`queue.c`), and those are the ones that have gone to sleep since the scan found the list empty: `freed` are
these threads. Where the code goes on with such a thread, with a list that another handler
has freed, or along one whose elements another takes, `program` is `"undefined"`, and
where it takes an element from an empty list, `"crashed"`. The properties speak of what happens until then.

The clock is kept as the distance to each sleeper's wake time. A join of a thread that is not a zombie
leaves copies of that thread in the zombie list, as line 333 does (`Rescanned`). It fails for a sleeper that is
in the `tmp_queue` of a handler (`Living`). A client joins a thread once (`asked`). The loops that empty a list
into two others (153-170, 326-337) are `Kept`, the elements of a set in their order. It is `SelectSeq`,
which the prover has no facts about; an assumption of `MCSched` compares the two on small lists.

### FS

A call is one step: the file system mounted with `sofs -s`, as its `Readme.txt`
starts it, serves one call at a time. The disk is the plain block array of the default build
(`TOPO=nocode`); with the log or the cache in its place the same calls go to those. A position counts *cells* of 16 bytes, the size
of a directory entry; a bitmap is the set of its bits that are set; `image` is what
the first blocks of the disk say of the metadata in memory.

| action | code |
|---|---|
| `Init` | fs_new and fs_format on an empty disk, 209-250 |
| `Create`, `Mkdir` with `AddEntry` | 491-559, 562-631 |
| `Write`, `WriteFails` | 381-488; too few free blocks, 421-435 |
| `Truncate` | 671-691 |
| `Refused` | every early return before anything changes |
| `Lookup`, `DirSearch`, `Read`, `Readdir`, `Attrs` (operators) | 280-326, 184-202, 329-378, 634-669, 253-277 |

`KernelCreates` is the one assumption about the caller: fs_create looks for a name with its
'/', which no entry has, so that only the kernel's own look-up keeps names unique.
A block that a write takes and does not fill holds `Junk` after the data (line 438: the
buffer is on the stack); `IsFileStore` shows that nobody ever reads it. `asked` is a
history variable: the last write's arguments, without its path. That a write goes to its own file
is therefore not `IsFileStore`'s to show; `IsOneDirectory` shows it, whose writes are through handles.

The abstract `FileStore` maps paths to directories, or files as sequences; `Tree` is what `FS`
shows of itself in those terms, by `Lookup` and `Read`. `FileStore` takes
`Write` past the end as a write at the end, as the code does: what is wrong
with that is told in section 4, and everything else stays checkable.

### Sofs

One action for each entry of `sofs_oper`, over the state of `FS` and the handles `fh` that
the kernel keeps: `sofs_open` and `sofs_create` put an inode number there, and `sofs_read` and
`sofs_write` get nothing else. `reply` is the last call with its answer; `OneDirectory`
says which answers a directory of files may give.

| action | code (`sofs.c`) |
|---|---|
| `SofsInit` | sofs_init 45-56 |
| `Getattr`, `SofsReaddir` | 122-159, 164-203 |
| `SofsCreate`, `Open`, `Release` | 98-116, 215-231, 359-362 |
| `SofsRead`, `SofsWrite`, `SofsTruncate` | 240-254, 266-283, 327-344 |
| `Accepted` | mknod, flush, utime, chown, chmod, getxattr: 291-324, 366-369 |

What it takes over from the code, and does not judge: sofs_truncate passes no size on, so that
a file is empty afterwards whatever `newsize` was; sofs_mknod answers 0 and creates nothing;
a write past the end is made at the end; and the `off_t` of 64 bits is handed to an `unsigned`
(247, 276), so that offsets count modulo 2^32 (`Unsigned`, `UINT_RANGE`). Sizes lose nothing by that: the
kernel asks for 128 KiB at the most. fs_mkdir has no caller in the front end, so that a path is the
root's or one name.

sofs_getattr copies the path through a pointer that is not set (128-129), and create, open and truncate
copy a path of any length to 14 bytes (104-106, 220-222, 332-334). After such a copy either nothing is
harmed, and a long name is refused (`TooLong`; fs_create does it at 498-501, and no entry has
the name), or C promises nothing any more: `Overrun` makes `memory` `"undefined"`, where the model ends.

### Queue

A call is one step on the fields `first`, `last`, `thread`, `next` and on
`empty_element_ptr`; `malloc` gives any address that is not allocated. `chain` is a history
variable: the elements that belong to each queue, in order. `create_queue` forgets the element
kept back (line 15), which is lost memory and nothing more.

| action | code (`queue.c`) |
|---|---|
| `CreateQueue`, `DeleteQueue` | 10-17, 19-29 |
| `Insert` with `NewElement` | 31-52 |
| `Remove` | 68-82 |

`delete_queue` also frees the threads in the queue (line 24). Their memory is not the queues' state;
what becomes of them is in `Sched`.

Ticks cannot come between the statements of `queue.c`, even where a caller has not
disabled them: `clock_tick` drops a tick outside `proc_start .. proc_end`, and the library's link
order puts `queue.o` behind that range (`sthread_user.o` lies in it).

### Uthash

`hh` is the hash handle of each element and `tbl` the table its handles point to; both
kinds of links are pointers, as in the code. Additions and deletions are the code's assignments to
them. The two loops that re-link a whole table are modelled twice: by their outcome in `Uthash`, from the
sequences that the chains are, which is what the proofs can reason about; and assignment by assignment
in `UthashLoops`, with the links overwritten that the loop follows. `LoopsRelink` says that the two
come to the same in every reachable table. The hash function is any function of the key,
chosen in `Init`. A call is one step: what the cache does with it is done under its mutex.

| definition | code (`uthash.h`) |
|---|---|
| `Find` | HASH_FIND 84-95, HASH_FIND_IN_BKT 568-579 |
| `Add`, `MakeTable`, `AddToBkt` | 152-175, 130-147, 582-593 |
| `ExpandBuckets`, `ExpandMult` | HASH_EXPAND_BUCKETS 637-683: `BucketByBucket` is the order of its two loops (653-656), `Spread` the chains that they push onto |
| `Delete` | HASH_DELETE 194-227, HASH_DEL_IN_BKT 596-606 |
| `Sort`, `Sorted`, `MergePass`, `Merge`, `Stays` | HASH_SRT 690-767 |
| `Clear` | HASH_CLEAR 812-820 |
| `ExpandLoop`, `Unchain`, `Push` | the loops of HASH_EXPAND_BUCKETS, 652-671 |
| `SortLoop`, `PassLoop`, `RunEnd`, `MergeRuns`, `Link` | the loops of HASH_SRT, 697-764 |

`Fsck` is HASH_FSCK (251-301), which the code runs only when it is compiled with
HASH_DEBUG, with the tail added. Elements that come and go can make the buckets double for
ever, since a multiplier is set from the chain lengths at the last expansion; `MaxBuckets`
bounds that.

## 3. Runs

| run | instance | shows |
|---|---|---|
| `rwlock_sliced` | 3 threads, time slices, promised mutex; 23,754 states | the lock itself: all its invariants, no starvation, implements `ReadersWriter` |
| `rwlock_coop` | 3 threads, no time slices, the code's mutex; 1,578 states | the mutex is never contended, implements `ReadersWriter` |
| `mutex_contended` | 3 threads, time slices, the code's mutex | **violated** `MutexExclusion` |
| `log_one_writer` | 1 writer, 1 reader that also dumps, 2 registers, 2 x 3 blocks; 504,437 states | implements `RegisterFile`; `livre` stays in the arrays; every call returns |
| `log_too_small` | 2 writers, 1 register, 2 x 1 blocks; 81,459 states | flips have no room and tests of `livre` all fail; calls fail but return |
| `log_two_writers` | 2 writers, 2 registers, 2 x 4 blocks | **violated** `OwnBlock` |
| `sched_lists` | 3 threads, a slice of 2 ticks, sleeps of 1, up to 2 interrupts inside one another on each stack; 817,744 states | no thread lost or doubled; everyone runs; joins are right and return |
| `sched_sleep` | the same, sleeps of 1 and 2, no interrupt inside another | **violated** `NotPassedOver` |
| `monitor_sliced` | 3 threads, time slices, the code's mutex, each thread through line 491 once at most; 282,786 states | who is inside owns the mutex but for line 491, no thread lost, signals and entries get in; the crash only when all wait |
| `fs_calls` | 2 names, 2 data cells, 4 inodes, 3 data blocks of 2 cells, 2 blocks an inode, writes of up to 3 cells; 20,463 states | blocks and inodes are owned once, the image is current, implements `FileStore` |
| `sofs_mount` | 3 names and a long one, 2 data cells, 2 handles, 4 inodes, 4 data blocks of 1 cell, 2 blocks an inode, writes of up to 2 cells, 16 offsets; 61,328 states | every answer is a directory's: implements `OneDirectory` |
| `uthash` | 5 elements with 3 keys, every function from keys to 2 hash values, 1 to 16 buckets, threshold 1; 17,296 states | chains whole and bounded, the loops re-link them as their outcome says, implements `HashTable` |

*Bounds.* Three threads are the fewest for a writer to leave while a reader and a
writer wait, for two readers to be posted in one loop, for a monitor to have one client
inside, one that waits or is signalled and one that enters, and for a thread to exit
with one joiner and one other in the join list. `MaxRequeues` = 1 lets line 491 put each thread in two
queues once, and all three of them at the same time: what matters to the others is who has been.

Three blocks an array is the least
in which two registers and a write fit after a flip, so that flips go both ways
for ever. In `log_too_small` one register fills an array of one block, so that each flip leaves no room
for the write that asked for it, and two writers find `livre` changed between any two tests.

`YieldAfter` is 5 in the code; 2 still separates ticks that keep the
processor from ticks that take it. `MaxHandlers` = 2 lets a tick fall into each statement of an
interrupt that was taken off the processor, on the same stack or on another; a third on one stack would do to
the second what the second does to the first. A sleep of 1 ends at the next scan; `MaxSleep` = 2 lets a wake
time be met and be missed.

In `fs_calls` a write of three cells covers parts of two blocks or starts a
new one in its middle; three data blocks hold the root's page and one full file, or
two files that compete for the second block, so that writes fail half way. Its
two objects fit one directory page. In `sofs_mount` a block is one cell, so that each file's entry needs a block
that the files' data compete for; inodes run out at the third file. Two handles are on one file or on two, so
that reads meet writes and truncations made through the other. `UINT_RANGE` = 16 is far beyond the largest file (2
cells); the offsets are those in the file, its end, one past it, and `UINT_RANGE` itself, which is the file's start again.

In `uthash` two of three hash values
collide in some functions and none or all in others; a threshold of 1 makes additions expand at
once, and two ineffective expansions in a row, which inhibit any other, are reached, as are
lists of every length up to 5 for the merge sort.

Names, cells and handles are only
compared, which makes `SYMMETRY` sound (the properties are safety properties), and
`VIEW` drops `asked` and `reply`, which no action reads and the refinements look at only in the
state they have just been set in. No state constraint is used; all instances are finite.

*Fairness.* `SlicedSpec`: ticks do not end (`WF Tick`), and a thread dispatched
again and again executes its next library step (`SF Forward`): a time slice of 50
ms is long against one statement, but any one slice may be too short. `CoopSpec`
has no ticks: a client outside the lock has to give way again and again
(`SF GiveWay`), which a cooperative library must ask of its clients; it need not
ask for the lock. A client that holds the lock lets it go. `Monitor!Spec`: the same, with the code's mutex, and a client inside
exits or waits; nobody has to signal. `LogRW!Spec`: a thread
inside a call goes on (`WF Work`), and the lock lets in whoever could get in again and
again (`SF Enter`), which is what `NoStarvation` of `RWLock` gives. `Sched!Spec`: the
clock ticks (`WF Tick`), and the library's own code goes on: a handler that has the processor
(`WF (Preempt \/ Scan)`) and a join that has been woken (`WF JoinReturn`). No client is assumed to do anything.

*Deadlock* is checked except in the runs of `Sched`, whose program ends by `exit(0)`, in `monitor_sliced`, where it
crashes when all clients wait, and in `sofs_mount`, where nothing is said once the memory is undefined.

## 4. What disagrees with the documents

Three runs end in a counterexample; `PROJECT.json` quotes the line each contradicts.

1. `mutex_contended` - a contended `mutex_lock` returns without the lock.
2. `log_two_writers` - `logrw_write` takes the read side of the lock; two writers
   put their registers in one block.
3. `sched_sleep` - a sleeper whose tick takes the processor away is passed over
   and never wakes.

More, without a run of their own:

- `logrw_init` (line 69) passes `block_new` its arguments in the other order, so that each array
  has `bloco_dim` blocks of `array_dim` bytes; when the registers are more than the blocks, a flip
  loses one. The file system's log has 16384 registers in arrays of 512 blocks. To see it, check
  `UpToDate` in `log_one_writer` with `num_reg = 3`, `array_dim = 4` and `bloco_dim = 2`.
- Two writers may advance `livre` past a full array without a flip, or past both, after which no
  write succeeds any more. To see it, check `FreeBlockInActive` with both writers of `log_two_writers`, `array_dim = 3` and
  `bloco_dim = 2`.
- Line 491 lets a second client into a monitor, even without time slices: `OneInside` and
  `Accounted` are false without their reference to `requeued`.
- A join overwrites the zombies it looks at (line 333): the next join of one of those fails.
- A join of a thread that sleeps fails (362) when a tick has left the sleeper in the `tmp_queue` of an
  interrupt, and so does every join that asks for it until that interrupt goes on.
- A thread that goes to sleep between an interrupt's last test of the list (251) and `delete_queue`
  (261) is freed, and never wakes; a join of it reads memory that is no longer allocated.
- fs_write makes a write past the end of a file at its end, and reports it as made
  (400-402; `FileStore` does the same).
- sofs_read and sofs_write take an offset of 2^32 bytes or more modulo 2^32 (247, 276): a read far past the end
  answers with the start of the file, and a write there overwrites it.
- sofs_getattr, sofs_create, sofs_open and sofs_truncate copy paths to memory that is too short or not
  theirs (128-129, 104-106, 220-222, 332-334).
- fs_lookup returns 1 for a name it has found, where `include/fs.h` 124 has 0.
- sofs_truncate, "Change the size of a file" (326), empties it, whatever the new size.

## 5. Proofs

`RWLock_proofs.tla`, for any finite set of threads. All theorems assume
`~(TimeSlice /\ Requeue)` (`NeverContendedCorrect`: `~TimeSlice /\ Requeue`) and the two
named assumptions of `USync`; the model's TLC runs evaluate those.

| theorem | establishes |
|---|---|
| `Invariance` | `SafetySpec => []IInv` |
| `TypeCorrect`, `CountsCorrect`, `ExclusionCorrect`, `NoLostWakeupCorrect`, `SomebodyToDispatchCorrect`, `NeverContendedCorrect` | the invariants of `rwlock_sliced` and `rwlock_coop` |
| `MutexExclusionCorrect` | the lock's critical sections exclude each other: what `mutex_contended` shows violated without the assumption |
| `Implements` | `SafetySpec => Abstract!SafetySpec`: the lock implements `ReadersWriter` |

`IInv` is the conjunction of: where each thread is (`SchedInv`: running, queued once,
or asleep), who sleeps in which queue at which statement (`QueueInv`), who owns the
mutex (`MutexInv`: the one thread in a critical section that does not sleep in the
mutex's queue), `Counts`, the state of the post loop (`LoopInv`), that a writer
admitted excludes readers admitted (`AdmitInv`), and that somebody is left to wake the
waiting (`WakeInv`). None of the properties is inductive alone: `Exclusion` needs
`Counts`, since the code tests counters and not threads; `Counts` needs to know that
a posted thread has left the semaphore's queue and nobody else changes the counters,
which is mutual exclusion, which needs the queues. The preservation proof has one
lemma per action; facts about queues as sequences and about cardinalities are lemmas
at the head of the module. `SomebodyToDispatch` follows by counting: were the run
queue empty, all others would sleep, and `WakeInv` with `Counts` names one that does
not.

`Queue_proofs.tla`, for any sets of queues, threads and elements, finite or not, from the one
assumption that NULL is no element's address:

| theorem | establishes |
|---|---|
| `ListsWhole` | `Spec => []IInv` |
| `Implements` | `Spec => AreThreadQueues`: the lists implement `ThreadQueues` |

`Queue!IInv` says that the pointers of each queue make up its chain (`Linked`), and that no
element is in two places, or in one while it is kept back or freed (`Owned`). Neither is
inductive alone: an insertion writes to the last element of a queue, which must be
no other queue's, and the element it takes must be nobody's. A queue's content is the sequence of
the threads in its chain, so the refinement needs `Owned` again: writing one element's
`thread` changes one place. There is no TLC run of `Queue`; the theorems cover every instance.

`Monitor_proofs.tla`, for any finite set of threads, with and without time slices, with the code's mutex
and with the one that `include/sthread.h` 79 promises, from the assumptions of `USync`:

| theorem | establishes |
|---|---|
| `Invariance` | `Spec => []IInv` |
| `TypeCorrect`, `OneInsideCorrect`, `AccountedCorrect`, `CrashOnlyWhenAllWaitCorrect` | the invariants of `monitor_sliced` |
| `PromisedOneInside` | with the promised mutex (`~Requeue`) who is inside is the owner, without exception |

`IInv` is `Alive \/ Crashed`. `Alive` says of every thread, by the statement at which it goes on, in
how many places it is of the run queue and of the two queues, those from line 491 included, and, for who
has never come through that line, whether the mutex is its own
(`Whereabouts`). `Accounted` counts the places and `OneInside` names the owner; neither is
inductive alone: an unlock hands the mutex to the head of its queue, which must be a thread
that waits for it, and a thread that fell asleep too late (between `Leave` and `Sleep`) is counted
twice in the run queue exactly when it owns the mutex. The threads with extra places can do anything but take
the mutex from its owner: the proof needs of them only that they have a place left in the run queue
whenever they own it. How often a thread is in a queue is the
cardinality of a set of positions; the first lemmas say what appending, taking the
first and concatenating do to it. `Crashed` is reached from `Sleep` alone: an empty run queue
leaves no place for anybody but the monitor's.

`LogRW_proofs.tla`, for any number of threads, registers and blocks, any data and any reader
threads, from the lock's promise:

| theorem | assumes | establishes |
|---|---|---|
| `TypeCorrect` | | `SafetySpec => []TypeOK`, with any number of writers: blocks and answers are what callers stored; of `livre` and `registo` no more than that they are numbers |
| `FreeBlockInActiveCorrect` | one writer | `livre` is in the active array, or at its end, except between the two assignments of a flip back |
| `UpToDateCorrect`, `OwnBlockCorrect` | one writer, `num_reg <= NumBlocks` | the invariants of `log_one_writer` |
| `Implements` | one writer, `num_reg < NumBlocks` | `SafetySpec => IsRegisterFile` |

The hypotheses are what the code asks of its caller without saying so, and they cannot be dropped:
`log_two_writers` violates `OwnBlock` with two writers, and with more registers than blocks a flip
has no room. With as many registers as blocks nothing is lost, but a write may find no free
block after the flip and fail, and the abstract store does not fail: hence `<` in the last
row. `BaseInv` is the use of the lock: who is in a call holds it in the call's mode. `FreeInv` is what the four tests
have found out about `livre` so far, and that the sum about to be stored is still `livre + 1`: both need
that nobody else writes. `LogInv` adds the flip's loop. `RoundsInv`: round `k` writes block `k`. `WhereInv`: the registers that have been moved are in the
active array, below the block now written; the others are still where they were. `CopiesInv`: what
the round has in hand is the register's last block. `Holds` and `OwnBlock` follow only together: the block
that a round writes must be nobody's. `AnswerInv` is what a reader needs beyond that: the
answer it has found is still the register's, since the mode of the lock keeps the writer out.

`Sched_proofs.tla`, for any finite set of threads, slices and sleeps of any length; no hypotheses but
the named assumption of `Sched`:

| theorem | establishes |
|---|---|
| `Invariance` | `SafetySpec => []IInv` |
| `TypeCorrect`, `OnePlaceCorrect`, `JoinersWaitForLivingCorrect`, `JoinMeansTerminatedCorrect` | the invariants of `sched_lists` |

`IInv` is `TypeOK`, `Placed` and `Stacked` while the program runs, and `Joins`. `Placed`: the active thread, the
lists and what the interrupts hold in `thread` and `tmp_queue` share out the threads that live and were not freed, each
once. `Stacked`: an interrupt holds a thread exactly at the statements between its removal and its insertion,
and one that has freed the list of sleepers is the active thread's last, with no sleeper in the list, until it has
assigned the new one. That is why line 262 overwrites no sleeper: a tick between `delete_queue` and the
assignment walks along the freed list before it could dispatch anybody. There is a lemma for each statement of the interrupt (`TickKeeps`,
`PreemptKeeps`, `ScanTestKeeps` to `ScanAssignKeeps`) and for each call.

`JoinMeansTerminated` is about results, which are given in two ways: by
an exit that finds its joiners in the list, and by a join that finds a zombie. The second needs
that zombies have exited, which is false: a copy left by line 333 bears the name of the
target of another join. `Joins` therefore has `Exited(z) \/ z \in asked`: a copy bears the name of
a target that has been asked for, and nobody joins that one again. `OnePlace` counts;
the pigeonhole lemmas (`OnceLength`, `DisjointUnion`) turn lists without repetitions that share no element
into a sum.

`FS_proofs.tla`, for any names and data, any numbers of blocks, inodes, slots and cells that `FSAssumption` admits:

| theorem | establishes |
|---|---|
| `Invariance` | `Spec => []IInv` |
| `TypeCorrect`, `OwnedOnceCorrect`, `OneNameCorrect`, `ImageCurrentCorrect` | the invariants of `fs_calls` |

`IInv` is `TypeOK`, `BitmapsInv` (metadata blocks stay taken, free inodes have no type), `OwnedInv` (the blocks of
the files are taken, and one file's), `NamesInv` (each entry names an inode, each named
inode has one entry) and `ImageInv`. They hold one another up: an entry is
appended to a directory's last page, which must be no other file's page (`OwnedInv`)
if the other entries are to stay (`NamesInv`); a new file's inode must be one that
no entry names, which is what the inode bitmap says only with `NamesInv`. fs_create does not look whether
the directory has a slot left: `EntriesBound` shows why it need not, by counting: entries
name different inodes, so that a free inode means room for one more entry, as long as
`FSAssumption` gives a directory as many slots as there are inodes. `FreeFound` and `FirstFound` say what the loops that search the bitmaps return;
there is one lemma for each effect (`RefusedKeeps`, `AddKeeps`, `WriteKeeps`, `WriteFailsKeeps`, `TruncateKeeps`).

In the second half of the module, from `NoneAssumption` (the value for no write is not a write):

| theorem | establishes |
|---|---|
| `PathInvariance` | `Spec => []PathInv` |
| `FileStoreCorrect` | `Spec => IsFileStore`: the file system implements `FileStore`, for trees of any depth |

`PathInv` adds to `IInv` that the entries of a directory have different names (`TreeInv`) and that each
named inode is found on a path no longer than there are such inodes (`ReachInv`), which rules out circles of
directories and keeps every path within `Paths`. TLC found both to hold on the instance of `fs_calls`
before they were proved. fs_lookup is a recursive function over the path: the first lemmas exhibit it as
a walk (`WalkExists`, `WalkSame`) and give what one more name adds (`LookupAppend`). They go by
induction over the length, which `SetInduction` draws from the least element of a finite set of numbers, since the
library's induction takes an operator. `EachOnePath` says that two paths to one inode are the same
path: the reason why writing one file changes `Tree` at one path. Each lemma of the last part
takes one action (`AddStep`, `WriteStep`, `TruncateStep`, and `QuietStep` for what changes nothing).

`Sofs_proofs.tla`, on top of `FS_proofs`, for any number of handles, from `SofsAssumption` (the value that
stands for no answer is neither a name nor a file's content):

| theorem | establishes |
|---|---|
| `SofsInvariance` | `SofsSpec => []SInv` |
| `SofsTypeCorrect` | the type invariant of `sofs_mount` |
| `OneDirectoryCorrect` | `SofsSpec => IsOneDirectory`: the front end implements `OneDirectory` |

`SInv` adds to the file system's `IInv` that the root is the only directory (the front end calls no
fs_mkdir), that its entries have different names, that each cell of a file up to its size has been
written, never `Junk`, and that handles are files. Each lemma of the last part takes one call: the concrete
step is a step of `OneDirectory` with the same answer, or leaves everything it shows as it is. `OneDirectory` has the
code's arithmetic on offsets, modulo `UINT_RANGE` and past the end to the end, and says nothing of what happens
after the memory is undefined.

`Uthash_proofs.tla`, for any finite set of elements, any keys, hash function and comparison, and any
power of two and threshold to start from, from `UthashAssumption`:

| theorem | establishes |
|---|---|
| `Invariance` | `Spec => []IInv` |
| `TypeCorrect`, `FsckCorrect`, `BoundedChainsCorrect` | the invariants of `uthash` |
| `Implements` | `Spec => IsHashTable`: the pointers implement `HashTable`, the sorted order included |

`IInv` (`Holds`) takes the application order as a sequence: its elements are linked both ways
(`Chained`), the table's tail and number of items are its own, each bucket is a chain of
exactly the elements that hash to it (`WholeBuckets`), each handle keeps the hash value of its key, and
chains are `Bounded`. `Fsck` says less than the code relies on: HASH_DELETE finds the bucket
from the handle's `hashv`, so that the stored value must be the key's, and HASH_FSCK does not look
at that; with hash values that agree only among themselves `Find` would miss. A chain is
what a recursive function finds by following pointers; `Chained` says
instead what each pointer is, and the first lemmas show that the two are the same sequence and what appending,
removing and pushing do to it.

`BoundedChains` is not inductive, and the reason is worth a reader's time. An expansion sets each multiplier to
count / ideal, with ideal the number of items over the number of buckets; no
chain is then longer than (multiplier + 1) * ideal. That is within the limit only if ideal is at
most the threshold, that is, if the table has at most threshold * buckets items, counting the new
buckets. Hence `Weighs`: the multipliers, plus one for each bucket that is just at its limit, add up
to no more than there are buckets. Deletions only lower the sum, an addition that does not expand
leaves its bucket below the limit, and an expansion sets each weight to at most count / ideal. Then
the chains hold at most threshold * (buckets + sum of the multipliers) items, and with the element
that caused the expansion not more than threshold * 2 * buckets. The sum is stated by its partial
sums `w`, a function and not a recursive definition.

HASH_SORT goes in three steps. A merge of two runs in order, each element of the first of which was before
each of the second, is in order and loses nothing (`Merges`). Before a pass with `insize`, every aligned block of
`insize` elements is in order, and what was before a multiple of `insize` still is (`Blocks`); the
pass makes that true of twice `insize` (`MergePassIs`). When the first block is the whole list, it is sorted
(`SortedIs`). The order is that of the comparison and, between equals, of the positions before
(`Before`), which makes stability a part of being sorted. Merge, the passes and the expansion's
loops are recursive functions, whose existence is proved from `Recursion`, by an induction over the length as in `FS_proofs`.

Only model-checked:

- liveness (`NoStarvation`, `EveryCallReturns`, `EveryoneRuns`, `JoinReturns`, `EnterReturns`), which is out of TLAPS's reach;
- that the pointer loops of uthash's expansion and sort come to what `Uthash` says of them (`LoopsRelink`):
  they are recursive operators, which its prover cannot reason about.

Every other invariant and every refinement of a passing run is a theorem.

## 6. Not modelled

- The cache (`cache.c`). It has no execution to model past its first calls: the first `cache_write`,
  and the first hit of a read, read `dirty_blocks_head->block_no` (line 78) while that list is
  empty, so that a build with `USE_CACHE` ends in fs_format. A block that is taken over for
  another (176-183) is added to the hash while it is still in it, which uthash does not allow.
- Several FUSE calls at a time (a mount without `-s`): `fs.c` takes no lock, and what
  threads of the operating system do to memory without one is undefined in C.
- HASH_SELECT, the bloom filter and the hash functions of `uthash.h`; `utlist.h` and
  `utarray.h`, which no source file includes.
- `logrw_load` and `logrw_store` read through an uninitialised pointer; what they
  do is undefined.
- `sthread_dump`, nice, priorities, run times: displayed, never decided upon (`qsort`
  in `yield` is called with zero elements).
- The POSIX version of the library, the facade, context switching, I/O delays: one
  call each to something outside, or machine dependent.

## 7. Plan

Done: all modules above, and the proofs of section 5. Left: the mutex and the semaphores with ticks inside their
operations (hazard at `sthread_user.c` 551).
