-------------------------------- MODULE Sofs --------------------------------
(***************************************************************************)
(* The FUSE front end, src/sofs/sofs.c, mounted for one call at a time     *)
(* ("sofs -s"), over the file system FS: what the kernel asks of it and    *)
(* what it answers.  The kernel keeps the file handles that it sets, and   *)
(* asks for 128 KiB at the most in one read or write, so that the sizes    *)
(* are the same as unsigned; the offsets are not.                          *)
(*                                                                         *)
(* Where a path is copied to memory that it does not fit, or through a     *)
(* pointer that is not set, the copy may do no harm, or C promises nothing *)
(* of the program any more: the memory is "undefined".                     *)
(***************************************************************************)
EXTENDS FS

CONSTANTS
    Handles,        \* what the kernel has for open files
    LongNames,      \* names whose paths are longer than MAX_FILE_NAME_SIZE
    UINT_RANGE      \* 2^32: the number of offsets that an unsigned can be, in cells

(* None stands for a file or a name that is not there. *)
ASSUME SofsAssumption ==
    /\ None \notin Names /\ None \notin Seq(Data)
    /\ LongNames \cap Names = {}
    /\ UINT_RANGE \in Nat \ {0}

VARIABLES
    fh,         \* fh[h]: the fi->fh that open or create has set; NoInode: not open
    memory,     \* "whole" or "undefined"
    reply       \* history: the last call with its answer

sofsvars == <<vars, fh, memory, reply>>

SofsTypeOK ==
    /\ TypeOK
    /\ fh \in [Handles -> Inodes]
    /\ \A h \in Handles : fh[h] # NoInode => IsFile(fh[h])
    /\ memory \in {"whole", "undefined"}

SofsInit ==         \* sofs_init
    /\ Init
    /\ fh = [h \in Handles |-> NoInode]
    /\ memory = "whole"
    /\ reply = [call |-> "mount"]

(* There is no sofs_mkdir: a path is the root's, << >>, or one name. *)
SofsPaths == {<< >>} \cup {<<n>> : n \in Names}

-----------------------------------------------------------------------------
Overrun == memory' = "undefined" /\ Refused /\ UNCHANGED <<fh, reply>>

Getattr(path) ==    \* -ENOENT is type "none"; a directory's size is 512 bytes
    LET f == Lookup(path)
        type == IF f = NoInode THEN "none" ELSE Attrs(f).type
    IN  /\ reply' = [call |-> "getattr", path |-> path, type |-> type,
                     size |-> CASE type = "none" -> 0
                                [] type = "dir"  -> BLOCK_SIZE
                                [] type = "file" -> Attrs(f).size]
        /\ Refused
        /\ UNCHANGED <<fh, memory>>

SofsReaddir ==
    /\ reply' = [call |-> "readdir",
                 entries |-> [k \in 1 .. Attrs(Root).num_entries |-> Readdir(Root)[k].name]]
    /\ Refused
    /\ UNCHANGED <<fh, memory>>

(* Whatever the path, the file is created in the root directory. *)
SofsCreate(h, n) ==
    /\ fh[h] = NoInode
    /\ \/ /\ KernelCreates(Root, n)
          /\ fh' = [fh EXCEPT ![h] = FreeInode]
          /\ reply' = [call |-> "create", handle |-> h, name |-> n, ok |-> TRUE]
       \/ /\ ~RoomForEntry(Root) /\ Refused
          /\ reply' = [call |-> "create", handle |-> h, name |-> n, ok |-> FALSE]
          /\ UNCHANGED fh
    /\ UNCHANGED memory

Open(h, n) ==
    LET f == Lookup(<<n>>) IN
    /\ fh[h] = NoInode
    /\ fh' = [fh EXCEPT ![h] = f]
    /\ reply' = [call |-> "open", handle |-> h, name |-> n, ok |-> f # NoInode]
    /\ Refused
    /\ UNCHANGED memory

(* fs_read and fs_write take an off_t, of 64 bits, as an unsigned. *)
Unsigned(offset) == offset % UINT_RANGE

SofsRead(h, offset, size) ==
    /\ IsFile(fh[h])
    /\ reply' = [call |-> "read", handle |-> h, start |-> offset, count |-> size,
                 data |-> Read(inode_tab, fh[h], Unsigned(offset), size)]
    /\ Refused
    /\ UNCHANGED <<fh, memory>>

ReportsSize(h, offset, buf) ==      \* mutation: the result of fs_write is not looked at
    LET start == Unsigned(offset) IN
    /\ fh[h] # NoInode
    /\ reply' = [call |-> "write", handle |-> h, start |-> offset, data |-> buf, ok |-> TRUE]
    /\ \/ Write(fh[h], start, buf)
       \/ WriteFails(fh[h], start, Len(buf))
       \/ ~FitsInode(fh[h], StartAt(fh[h], start), Len(buf)) /\ Refused
    /\ UNCHANGED <<fh, memory>>

SofsWrite(h, offset, buf) ==
    LET start == Unsigned(offset) IN
    /\ fh[h] # NoInode
    /\ \E ok \in BOOLEAN :
          /\ reply' = [call |-> "write", handle |-> h, start |-> offset, data |-> buf, ok |-> ok]
          /\ \/ ok /\ Write(fh[h], start, buf)
             \/ ~ok /\ WriteFails(fh[h], start, Len(buf))
             \/ ~ok /\ ~FitsInode(fh[h], StartAt(fh[h], start), Len(buf)) /\ Refused
    /\ UNCHANGED <<fh, memory>>

SofsTruncate(n) ==      \* newsize is not passed on
    LET f == Lookup(<<n>>) IN
    /\ reply' = [call |-> "truncate", name |-> n, ok |-> f # NoInode]
    /\ IF f # NoInode THEN Truncate(f) ELSE Refused
    /\ UNCHANGED <<fh, memory>>

Release(h) ==           \* sofs_release does nothing; the handle is the kernel's
    /\ fh[h] # NoInode
    /\ fh' = [fh EXCEPT ![h] = NoInode]
    /\ reply' = [call |-> "release"]
    /\ Refused
    /\ UNCHANGED memory

(* A path that is longer than the 14 bytes allocated for its copy.  Where the bytes behind
   them are nobody's, fs_create refuses it (FS_MAX_FNAME_SZ), and fs_lookup finds no entry. *)
TooLong(h, n) ==
    /\ \/ fh[h] = NoInode /\ reply' = [call |-> "create", handle |-> h, name |-> n, ok |-> FALSE]
       \/ fh[h] = NoInode /\ reply' = [call |-> "open", handle |-> h, name |-> n, ok |-> FALSE]
       \/ reply' = [call |-> "truncate", name |-> n, ok |-> FALSE]
    /\ Refused
    /\ UNCHANGED <<fh, memory>>

(* sofs_mknod, flush, utime, chown, chmod and getxattr return 0 and do nothing. *)
Accepted ==
    /\ reply' = [call |-> "accepted"]
    /\ Refused
    /\ UNCHANGED <<fh, memory>>

Offsets(h) ==       \* up to one past the end, and the start past the range of an unsigned
    (0 .. inode_tab[fh[h]].size + 1) \cup {UINT_RANGE}

SofsNext ==
    /\ memory = "whole"
    /\ \/ \E path \in SofsPaths : Getattr(path)
       \/ SofsReaddir
       \/ \E n \in Names : SofsTruncate(n)
       \/ \E h \in Handles, n \in Names : SofsCreate(h, n) \/ Open(h, n)
       \/ \E h \in Handles, n \in LongNames : TooLong(h, n)
       \/ \E h \in Handles : \E offset \in Offsets(h) :
             \/ \E size \in 1 .. MaxCount : SofsRead(h, offset, size)
             \/ \E buf \in UNION {[1 .. n -> Data] : n \in 1 .. MaxCount} : SofsWrite(h, offset, buf)
       \/ \E h \in Handles : Release(h)
       \/ Accepted
       \/ Overrun                 \* any getattr, and any of the calls with a long name

SofsSpec == SofsInit /\ [][SofsNext]_sofsvars

-----------------------------------------------------------------------------
(* Correctness *)

Mounted == INSTANCE OneDirectory WITH
    StartRange <- UINT_RANGE,
    content <- [n \in Names |->
        LET f == Lookup(<<n>>)
        IN  IF f = NoInode THEN None ELSE Read(inode_tab, f, 0, inode_tab[f].size)],
    opened <- [h \in Handles |->
        IF fh[h] = NoInode THEN None ELSE CHOOSE n \in Names : Lookup(<<n>>) = fh[h]]

(* Every answer of the front end is the one that a directory of files gives: what is
   read through a handle is what was last written to the file of that name, before or
   after truncations and whatever blocks went from file to file; sizes, listings and
   look-ups agree with it; a write that is refused, for lack of blocks in the inode or on
   the disk, leaves no trace in what any file holds.  In this directory an offset counts
   modulo the range of an unsigned (lines 247, 276), and a write that starts past the end
   is made at the end (fs.c 400-402). *)
IsOneDirectory == Mounted!Spec

=============================================================================
