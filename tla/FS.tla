-------------------------------- MODULE FS --------------------------------
(***************************************************************************)
(* The file system layer, src/sofs/fs.c, mounted for one client at a time  *)
(* ("sofs -s", src/sofs/Readme.txt): each call is one step.  The blocks    *)
(* are a plain array, as in the builds without USE_CACHE and USE_LOG_SOFS. *)
(*                                                                         *)
(* Positions and sizes count cells of sizeof(fs_dentry_t) = 16 bytes: a    *)
(* directory entry is a cell, and a file is read and written in cells.     *)
(***************************************************************************)
EXTENDS Integers, Sequences, FiniteSets

CONSTANTS
    Names, Data,        \* names of directory entries; cells that callers write
    None,               \* no write
    Junk,               \* a cell with anything else in it: zeroes, or the stack
    BLOCK_SIZE,         \* 32 cells
    INODE_NUM_BLKS,     \* 10
    ITAB_SIZE,          \* 64
    ITAB_NUM_BLKS,      \* 8
    NUM_BLOCKS,
    MaxCount            \* bound: the longest fs_write, in cells

ASSUME FSAssumption ==
    /\ BLOCK_SIZE \in Nat \ {0} /\ INODE_NUM_BLKS \in Nat \ {0}
    /\ ITAB_SIZE \in Nat /\ ITAB_SIZE > 2
    /\ ITAB_NUM_BLKS \in Nat /\ NUM_BLOCKS \in Nat /\ NUM_BLOCKS >= ITAB_NUM_BLKS + 2
    /\ MaxCount \in Nat
    /\ Junk \notin Data

(* A directory never needs more blocks than an inode has: 62 entries in 10 blocks. *)
ASSUME DirectoryFits == ITAB_SIZE - 2 <= INODE_NUM_BLKS * BLOCK_SIZE

(* None is not a write. *)
ASSUME NoneAssumption == None \notin [start : Nat, data : Seq(Data)]

VARIABLES
    blk_bmap, inode_bmap, inode_tab,    \* the metadata in memory; a bitmap is a set
    disk,           \* the data blocks
    image,          \* the metadata in the first blocks of the disk
    asked           \* history: what the last call was to write, and where

meta == <<blk_bmap, inode_bmap, inode_tab>>
vars == <<meta, disk, image, asked>>

Blocks  == 0 .. NUM_BLOCKS - 1
Meta    == 0 .. ITAB_NUM_BLKS + 1       \* blocks that hold the image
Inodes  == 0 .. ITAB_SIZE - 1
Root    == 1
NoInode == 0                            \* "will never be used"
Cells   == 0 .. BLOCK_SIZE - 1
Slots   == 0 .. INODE_NUM_BLKS - 1

Entries == [name : Names, inodeid : Inodes]

InodeRecords == [type : {"none", "dir", "file"},
                 size : 0 .. INODE_NUM_BLKS * BLOCK_SIZE,
                 blocks : [Slots -> Blocks]]

NewInode(type) == [type |-> type, size |-> 0, blocks |-> [s \in Slots |-> 0]]

TypeOK ==
    /\ blk_bmap \subseteq Blocks
    /\ inode_bmap \subseteq Inodes
    /\ inode_tab \in [Inodes -> InodeRecords]
    /\ disk \in [Blocks \ Meta -> [Cells -> Entries \cup Data \cup {Junk}]]

(* fs_new on an empty disk and fs_format, as sofs_init calls them *)
Init ==
    /\ blk_bmap = Meta
    /\ inode_bmap = {NoInode, Root}
    /\ inode_tab = [f \in Inodes |-> NewInode(IF f = Root THEN "dir" ELSE "none")]
    /\ disk = [b \in Blocks \ Meta |-> [c \in Cells |-> Junk]]
    /\ image = meta
    /\ asked = None

-----------------------------------------------------------------------------
OffsetToBlocks(pos) == (pos + BLOCK_SIZE - 1) \div BLOCK_SIZE

Used(f) == OffsetToBlocks(inode_tab[f].size)

(* The cell at position pos of file or directory f, as the inodes tab have it. *)
CellIn(tab, f, pos) == disk[tab[f].blocks[pos \div BLOCK_SIZE]][pos % BLOCK_SIZE]

ForgetsToSet(bmap, num) == bmap         \* mutation: what is handed out is not marked

BMAP_SET(bmap, num) == bmap \cup {num}

FindsTheSame(S, bmap, n) ==     \* mutation: the number found is not set before the next call
    CHOOSE b \in S \ bmap : \A c \in S \ bmap : b <= c

(* fsi_bmap_find_free, called again and again, finds the numbers of S that bmap
   lacks from the lowest up; this is the one it finds after n others. *)
FindFree(S, bmap, n) ==
    CHOOSE b \in S \ bmap : Cardinality({c \in S \ bmap : c < b}) = n

DirSearch(dir, name) ==
    LET hits == {pos \in 0 .. inode_tab[dir].size - 1 : CellIn(inode_tab, dir, pos).name = name}
    IN  IF hits = {} THEN NoInode
        ELSE CellIn(inode_tab, dir, CHOOSE pos \in hits : \A p \in hits : pos <= p).inodeid

Lookup(path) ==     \* fs_lookup; NoInode: it returns 0 or -1
    LET at[n \in 0 .. Len(path)] ==
            IF n = 0 THEN Root
            ELSE IF at[n-1] \in inode_bmap /\ inode_tab[at[n-1]].type = "dir"
                 THEN DirSearch(at[n-1], path[n])
                 ELSE NoInode
    IN  at[Len(path)]

Readdir(dir) ==     \* fs_readdir, with room for all entries
    [k \in 1 .. inode_tab[dir].size |->
        LET e == CellIn(inode_tab, dir, k - 1)
        IN  [name |-> e.name, type |-> inode_tab[e.inodeid].type]]

Attrs(f) ==         \* fs_get_attrs; sizes and entries both count cells
    [type |-> inode_tab[f].type, size |-> inode_tab[f].size,
     num_entries |-> IF inode_tab[f].type = "dir" THEN inode_tab[f].size ELSE -1]

Least(a, b) == IF a <= b THEN a ELSE b
Most(a, b)  == IF a >= b THEN a ELSE b

Read(tab, f, offset, count) ==      \* fs_read
    [k \in 1 .. Least(count, tab[f].size - offset) |-> CellIn(tab, f, offset + k - 1)]

StoresTooEarly == image' = meta         \* mutation: the metadata are stored before they change

StoreFsData == image' = meta'

-----------------------------------------------------------------------------
(* The end of fs_create and of fs_mkdir: one more entry, and its inode. *)

FreeInode == FindFree(Inodes, inode_bmap, 0)

NeedsPage(dir) == inode_tab[dir].size % BLOCK_SIZE = 0

RoomForEntry(dir) ==
    /\ Inodes # inode_bmap
    /\ NeedsPage(dir) => Blocks # blk_bmap

AddEntry(dir, name, type) ==
    LET size == inode_tab[dir].size
        slot == size \div BLOCK_SIZE
        block == IF NeedsPage(dir) THEN FindFree(Blocks, blk_bmap, 0)
                 ELSE inode_tab[dir].blocks[slot]
    IN  /\ RoomForEntry(dir)
        /\ blk_bmap' = BMAP_SET(blk_bmap, block)
        /\ inode_bmap' = BMAP_SET(inode_bmap, FreeInode)
        /\ inode_tab' = [inode_tab EXCEPT
              ![dir].size = size + 1, ![dir].blocks[slot] = block,
              ![FreeInode] = NewInode(type)]
        /\ disk' = [disk EXCEPT
              ![block][size % BLOCK_SIZE] = [name |-> name, inodeid |-> FreeInode]]
        /\ StoreFsData
        /\ asked' = None

IsDirectory(dir) == dir \in inode_bmap /\ inode_tab[dir].type = "dir"

(* The search of line 514 is for the name with a '/' before it, which no entry has
   (line 545): it finds nothing, and guards nothing. *)
CreatesDirectory(dir, name) ==      \* mutation: the new inode gets mkdir's type
    /\ IsDirectory(dir)
    /\ AddEntry(dir, name, "dir")

Create(dir, name) ==
    /\ IsDirectory(dir)
    /\ AddEntry(dir, name, "file")

Mkdir(dir, name) ==
    /\ IsDirectory(dir)
    /\ DirSearch(dir, name) = NoInode
    /\ AddEntry(dir, name, "dir")

-----------------------------------------------------------------------------
(* fs_write *)

IsFile(f) == f \in inode_bmap /\ inode_tab[f].type = "file"

StartsPastEnd(f, start) == start        \* mutation: no look at the size of the file

StartAt(f, start) == Least(start, inode_tab[f].size)    \* past the end means at the end

AlwaysGrows(f, offset, count) == inode_tab[f].size + count      \* mutation: offset ignored

NewSize(f, offset, count) == Most(offset + count, inode_tab[f].size)

Required(f, offset, count) ==
    Most(OffsetToBlocks(offset + count), Used(f)) - Used(f)

(* f's inode with n more blocks, as far as the disk has them *)
Reserved(f, n) == [inode_tab EXCEPT ![f].blocks =
    [s \in Slots |->
        IF s >= Used(f) /\ s < Used(f) + n
        THEN FindFree(Blocks, blk_bmap, s - Used(f)) ELSE @[s]]]

FitsInode(f, offset, count) == Required(f, offset, count) <= INODE_NUM_BLKS - Used(f)

(* Not enough free blocks: those there are have been reserved by then. *)
WriteFails(f, start, count) ==
    LET offset == StartAt(f, start)
        free == Cardinality(Blocks \ blk_bmap)
    IN  /\ IsFile(f) /\ FitsInode(f, offset, count)
        /\ free < Required(f, offset, count)
        /\ inode_tab' = Reserved(f, free)
        /\ blk_bmap' = Blocks
        /\ asked' = None
        /\ UNCHANGED <<inode_bmap, disk, image>>

Write(f, start, data) ==
    LET offset == StartAt(f, start)
        count  == Len(data)
        need   == Required(f, offset, count)
        tab    == Reserved(f, need)
        new    == {tab[f].blocks[s] : s \in Used(f) .. Used(f) + need - 1}
        at(b, c) == {k \in 1 .. count : /\ tab[f].blocks[(offset + k - 1) \div BLOCK_SIZE] = b
                                        /\ (offset + k - 1) % BLOCK_SIZE = c}
    IN  /\ IsFile(f) /\ FitsInode(f, offset, count)
        /\ need <= Cardinality(Blocks \ blk_bmap)
        /\ blk_bmap' = blk_bmap \cup new
        /\ inode_tab' = [tab EXCEPT ![f].size = NewSize(f, offset, count)]
        /\ disk' = [b \in Blocks \ Meta |-> [c \in Cells |->
              IF at(b, c) # {} THEN data[CHOOSE k \in at(b, c) : TRUE]
              ELSE IF b \in new THEN Junk ELSE disk[b][c]]]
        /\ UNCHANGED inode_bmap
        /\ StoreFsData
        /\ asked' = [start |-> start, data |-> data]

Truncate(f) ==      \* fs_truncate; the metadata on disk stay as they are
    /\ inode_tab[f].type = "file"
    /\ blk_bmap' = blk_bmap \ {inode_tab[f].blocks[s] : s \in 0 .. Used(f) - 1}
    /\ inode_tab' = [inode_tab EXCEPT ![f].size = 0]
    /\ asked' = None
    /\ UNCHANGED <<inode_bmap, disk, image>>

(* Any call that changes nothing: one that returns -1, such as a write to the root, or
   one that only reads. *)
Refused ==
    /\ asked' = None
    /\ UNCHANGED <<meta, disk, image>>

(* The kernel calls create only after it has looked the name up, and not found it. *)
KernelCreates(dir, name) ==
    /\ IsDirectory(dir) /\ DirSearch(dir, name) = NoInode
    /\ Create(dir, name)

Next ==
    \/ Refused
    \/ \E dir \in Inodes, name \in Names : KernelCreates(dir, name) \/ Mkdir(dir, name)
    \/ \E f \in Inodes, count \in 0 .. MaxCount :
          \E start \in 0 .. inode_tab[f].size + 1 :     \* any start past the end is the same
              \/ WriteFails(f, start, count)
              \/ \E data \in [1 .. count -> Data] : Write(f, start, data)
    \/ \E f \in Inodes : Truncate(f)

Spec == Init /\ [][Next]_vars

-----------------------------------------------------------------------------
(* Correctness *)

Positions(type) ==      \* where files, or directories, have a cell
    {x \in Inodes \X (0 .. INODE_NUM_BLKS * BLOCK_SIZE - 1) :
        x[1] \in inode_bmap /\ inode_tab[x[1]].type = type /\ x[2] < inode_tab[x[1]].size}

BlockSlots == {x \in Inodes \X Slots : x[1] \in inode_bmap /\ x[2] < Used(x[1])}

(* Whatever was created, written, truncated or refused: no block belongs to two
   files, or twice to one, nor to the metadata, and none is free while it belongs
   to a file (fs.c 402-433, 534-548, 671-691). *)
OwnedOnce ==
    LET block(x) == inode_tab[x[1]].blocks[x[2]]
    IN  /\ \A x \in BlockSlots : block(x) \in blk_bmap \ Meta
        /\ \A x, y \in BlockSlots : block(x) = block(y) => x = y

(* Every inode in use has one name: directory entries and inodes other than the root
   correspond to each other, whatever page of the directory they are in (491-630). *)
OneName ==
    LET entry(x) == CellIn(inode_tab, x[1], x[2]).inodeid
    IN  /\ {entry(x) : x \in Positions("dir")} = inode_bmap \ {NoInode, Root}
        /\ \A x, y \in Positions("dir") : entry(x) = entry(y) => x = y

(* What the metadata on disk say of a file is what is read of it, or the file has been
   truncated since, for fs_truncate (671-691) does not store them (the comments at 482
   and 556 say of fs_write and fs_create that they do). *)
ImageCurrent ==
    \A f \in image[2] : image[3][f].type = "file" =>
        \/ inode_tab[f].size = 0
        \/ Read(image[3], f, 0, image[3][f].size) = Read(inode_tab, f, 0, inode_tab[f].size)

Paths == UNION {[1 .. n -> Names] : n \in 1 .. ITAB_SIZE - 2}

Tree ==     \* what each path names
    [p \in Paths |->
        LET f == Lookup(p)
        IN  IF f = NoInode THEN [kind |-> "absent", content |-> << >>]
            ELSE [kind |-> inode_tab[f].type,
                  content |-> IF inode_tab[f].type = "file"
                              THEN Read(inode_tab, f, 0, inode_tab[f].size) ELSE << >>]]

Stores == INSTANCE FileStore WITH store <- Tree

(* Looked up and read block by block, it is the file store of FileStore: what is
   written is read, one file's writes are never seen in another, and no cell that
   nobody wrote is ever read (include/fs.h 97-214). *)
IsFileStore == Stores!Spec

=============================================================================
