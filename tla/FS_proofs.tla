----------------------------- MODULE FS_proofs -----------------------------
(***************************************************************************)
(* Proofs about FS: for any number of blocks and inodes of any size, no    *)
(* block is in two places, every inode has one name, what the disk says of *)
(* a file is what is read of it, fs_lookup finds every file on paths of    *)
(* any length, and the file system implements FileStore.                   *)
(***************************************************************************)
EXTENDS FS, TLAPS, FiniteSetTheorems, SequenceTheorems

-----------------------------------------------------------------------------
(* Pages and positions *)

LEMMA Times ==
    ASSUME NEW b \in Nat \ {0}, NEW x \in Int, NEW y \in Int
    PROVE  /\ b * x \in Int
           /\ x < y <=> b * x < b * y
           /\ b * (x + 1) = b * x + b
<1>1. b * x \in Int
    OBVIOUS
<1>2. x < y <=> b * x < b * y
    OBVIOUS
<1>3. b * (x + 1) = b * x + b
    OBVIOUS
<1>4. QED
    BY <1>1, <1>2, <1>3

LEMMA Division ==
    ASSUME NEW b \in Nat \ {0}, NEW a \in Nat
    PROVE  /\ a \div b \in Nat /\ a % b \in 0 .. b - 1
           /\ a = b * (a \div b) + (a % b)
<1>1. a % b \in 0 .. b - 1
    OBVIOUS
<1>2. a = b * (a \div b) + (a % b)
    OBVIOUS
<1>3. a \div b \in Nat
    OBVIOUS
<1>4. QED
    BY <1>1, <1>2, <1>3

(* Position p is in page p \div b. *)
LEMMA PageOf ==
    ASSUME NEW b \in Nat \ {0}, NEW p \in Nat, NEW k \in Nat
    PROVE  p \div b < k <=> p < b * k
<1> DEFINE q == p \div b  r == p % b
<1>1. q \in Nat /\ r \in 0 .. b - 1 /\ p = b * q + r
    BY Division
<1> HIDE DEF q, r
<1>2. /\ b * q \in Int /\ b * k \in Int /\ b * (q + 1) = b * q + b /\ b * (k + 1) = b * k + b
      /\ q < k <=> b * q < b * k
      /\ k < q + 1 <=> b * k < b * (q + 1)
    BY <1>1, Times
<1>3. q < k <=> p < b * k
    BY <1>1, <1>2
<1>4. QED
    BY <1>3 DEF q

(* A file of p cells has so many pages. *)
LEMMA Pages ==
    ASSUME NEW p \in Nat, NEW k \in Nat
    PROVE  /\ OffsetToBlocks(p) \in Nat
           /\ k < OffsetToBlocks(p) <=> BLOCK_SIZE * k < p
<1> DEFINE b == BLOCK_SIZE
           a == p + b - 1
<1>1. b \in Nat \ {0} /\ a \in Nat
    BY FSAssumption
<1>2. OffsetToBlocks(p) = a \div b
    BY DEF OffsetToBlocks
<1> HIDE DEF a
<1>3. a \div b \in Nat
    BY <1>1, Division
<1>4. a \div b < k + 1 <=> a < b * (k + 1)
    BY <1>1, PageOf
<1>5. b * k \in Int /\ b * (k + 1) = b * k + b
    BY <1>1, Times
<1>6. a = p + b - 1
    BY DEF a
<1> HIDE DEF b
<1>7. k < a \div b <=> b * k < p
    BY <1>1, <1>3, <1>4, <1>5, <1>6
<1>8. QED
    BY <1>2, <1>3, <1>7 DEF b

(* Every position of a file is in one of its pages. *)
LEMMA InPage ==
    ASSUME NEW pos \in Nat, NEW p \in Nat, pos < p
    PROVE  pos \div BLOCK_SIZE \in Nat /\ pos \div BLOCK_SIZE < OffsetToBlocks(p)
           /\ pos % BLOCK_SIZE \in Cells
<1> DEFINE q == pos \div BLOCK_SIZE
<1>1. q \in Nat /\ pos % BLOCK_SIZE \in 0 .. BLOCK_SIZE - 1 /\ ~(pos < BLOCK_SIZE * q)
  <2>1. BLOCK_SIZE \in Nat \ {0}
      BY FSAssumption
  <2>2. q \in Nat /\ pos % BLOCK_SIZE \in 0 .. BLOCK_SIZE - 1
      BY <2>1, Division
  <2>3. q < q <=> pos < BLOCK_SIZE * q
      BY <2>1, <2>2, PageOf
  <2>4. QED
      BY <2>2, <2>3
<1> HIDE DEF q
<1>2. BLOCK_SIZE * q \in Int
    BY <1>1, FSAssumption, Times
<1>3. q < OffsetToBlocks(p)
    BY <1>1, <1>2, Pages
<1>4. QED
    BY <1>1, <1>3 DEF q, Cells

(* More cells are not in fewer pages. *)
LEMMA PagesGrow ==
    ASSUME NEW p \in Nat, NEW z \in Nat, z <= p
    PROVE  OffsetToBlocks(z) <= OffsetToBlocks(p)
<1>1. OffsetToBlocks(p) \in Nat /\ OffsetToBlocks(z) \in Nat
    BY Pages
<1> DEFINE k == OffsetToBlocks(p)
<1>2. /\ k < OffsetToBlocks(p) <=> BLOCK_SIZE * k < p
      /\ k < OffsetToBlocks(z) <=> BLOCK_SIZE * k < z
    BY <1>1, Pages
<1>3. BLOCK_SIZE * k \in Int
    BY <1>1, FSAssumption, Times
<1> HIDE DEF k
<1>4. ~(k < OffsetToBlocks(z)) \/ k < OffsetToBlocks(p)
    BY <1>2, <1>3
<1>5. QED
    BY <1>1, <1>4 DEF k

(* One cell more is in the page after the last, if that is full. *)
LEMMA OneMore ==
    ASSUME NEW p \in Nat
    PROVE  /\ OffsetToBlocks(p + 1) = p \div BLOCK_SIZE + 1
           /\ OffsetToBlocks(p) = IF p % BLOCK_SIZE = 0 THEN p \div BLOCK_SIZE
                                  ELSE p \div BLOCK_SIZE + 1
<1> DEFINE q == p \div BLOCK_SIZE  r == p % BLOCK_SIZE  m == BLOCK_SIZE * q
<1>1. q \in Nat /\ r \in 0 .. BLOCK_SIZE - 1 /\ p = m + r
    BY FSAssumption, Division
<1>2. /\ m \in Int /\ BLOCK_SIZE * (q + 1) = m + BLOCK_SIZE
      /\ BLOCK_SIZE \in Nat \ {0}
    BY <1>1, FSAssumption, Times
<1>3. /\ q < OffsetToBlocks(p) <=> m < p
      /\ q + 1 < OffsetToBlocks(p) <=> BLOCK_SIZE * (q + 1) < p
      /\ q < OffsetToBlocks(p + 1) <=> m < p + 1
      /\ q + 1 < OffsetToBlocks(p + 1) <=> BLOCK_SIZE * (q + 1) < p + 1
      /\ OffsetToBlocks(p) \in Nat /\ OffsetToBlocks(p + 1) \in Nat
    BY <1>1, Pages
<1>4. q # 0 => /\ q - 1 \in Nat /\ BLOCK_SIZE * (q - 1) \in Int
               /\ BLOCK_SIZE * (q - 1) < m
               /\ q - 1 < OffsetToBlocks(p) <=> BLOCK_SIZE * (q - 1) < p
  <2>1. SUFFICES ASSUME q # 0
                 PROVE  /\ q - 1 \in Nat /\ BLOCK_SIZE * (q - 1) \in Int
                        /\ BLOCK_SIZE * (q - 1) < m
                        /\ q - 1 < OffsetToBlocks(p) <=> BLOCK_SIZE * (q - 1) < p
      OBVIOUS
  <2>2. q - 1 \in Nat /\ q - 1 < q
      BY <1>1, <2>1
  <2>3. QED
      BY <1>1, <2>2, Pages, Times, FSAssumption
<1> HIDE DEF q, r, m
<1>5. OffsetToBlocks(p + 1) = q + 1
    BY <1>1, <1>2, <1>3
<1>6. OffsetToBlocks(p) = IF r = 0 THEN q ELSE q + 1
    BY <1>1, <1>2, <1>3, <1>4
<1>7. QED
    BY <1>5, <1>6 DEF q, r

-----------------------------------------------------------------------------
(* What fsi_bmap_find_free finds *)

(* The elements of a set of numbers below each of them count it through. *)
LEMMA Ranks ==
    ASSUME NEW P, P \subseteq Int, IsFiniteSet(P)
    PROVE  /\ Cardinality(P) \in Nat
           /\ \A j, k \in P : Cardinality({c \in P : c < j}) = Cardinality({c \in P : c < k})
                              => j = k
           /\ \A n \in Nat : n < Cardinality(P) =>
                \E k \in P : Cardinality({c \in P : c < k}) = n
<1> DEFINE C == Cardinality(P)
           below(k) == {c \in P : c < k}
           rank == [k \in P |-> Cardinality(below(k))]
<1>1. IsFiniteSet(P) /\ C \in Nat
    BY FS_CardinalityType
<1> HIDE DEF C
<1>2. ASSUME NEW k \in P
      PROVE  IsFiniteSet(below(k)) /\ Cardinality(below(k)) \in 0 .. C - 1
  <2> DEFINE U == below(k)
  <2>1. U \in SUBSET P /\ U # P
      OBVIOUS
  <2> HIDE DEF U
  <2>2. IsFiniteSet(U) /\ Cardinality(U) <= C /\ Cardinality(U) \in Nat /\ Cardinality(U) # C
      BY <1>1, <2>1, FS_Subset, FS_CardinalityType DEF C
  <2>3. QED
      BY <1>1, <2>2 DEF U
<1>3. ASSUME NEW j \in P, NEW k \in P, j < k
      PROVE  Cardinality(below(j)) # Cardinality(below(k))
  <2> DEFINE U == below(j)
             V == below(k)
  <2>1. U \in SUBSET V /\ j \in V /\ j \notin U
    <3>1. \A c \in P : c \in Int
        OBVIOUS
    <3>2. \A c \in P : c < j => c < k
        BY <1>3, <3>1
    <3>3. j \in P /\ ~(j < j) /\ j < k
        BY <1>3, <3>1
    <3>4. QED
        BY <3>2, <3>3
  <2>2. IsFiniteSet(V)
      BY <1>2
  <2> HIDE DEF U, V
  <2>3. Cardinality(V) # Cardinality(U)
      BY <2>1, <2>2, FS_Subset
  <2>4. QED
      BY <2>3 DEF U, V
<1>4. ASSUME NEW j \in P, NEW k \in P, Cardinality(below(j)) = Cardinality(below(k))
      PROVE  j = k
  <2>1. j \in Int /\ k \in Int
      OBVIOUS
  <2>2. ~(j < k) /\ ~(k < j)
      BY <1>3, <1>4
  <2>3. QED
      BY <2>1, <2>2
<1> HIDE DEF below
<1>5. rank \in Injection(P, 0 .. C - 1)
    BY <1>2, <1>4 DEF Injection, IsInjective
<1>6. rank \in Surjection(P, 0 .. C - 1)
  <2>1. 0 \in Int /\ C - 1 \in Int
      BY <1>1
  <2>2. IsFiniteSet(0 .. C - 1) /\ Cardinality(0 .. C - 1) = IF 0 > C - 1 THEN 0 ELSE C - 1 - 0 + 1
      BY <2>1, FS_Interval
  <2>3. Cardinality(0 .. C - 1) = C
      BY <1>1, <2>2
  <2> HIDE DEF rank
  <2>4. QED
      BY <1>5, <2>2, <2>3, FS_Injection DEF C
<1>7. \A n \in 0 .. C - 1 : \E k \in P : Cardinality(below(k)) = n
    BY <1>6 DEF Surjection
<1>8. \A n \in Nat : n < C => \E k \in P : Cardinality(below(k)) = n
    BY <1>1, <1>7
<1>9. QED
    BY <1>1, <1>4, <1>8 DEF C, below

(* As long as there are free ones, they are found, and never the same twice. *)
LEMMA FreeFound ==
    ASSUME NEW S, S \subseteq Int, IsFiniteSet(S), NEW bmap
    PROVE  /\ Cardinality(S \ bmap) \in Nat
           /\ \A n \in Nat : n < Cardinality(S \ bmap) => FindFree(S, bmap, n) \in S \ bmap
           /\ \A n, k \in Nat : n < Cardinality(S \ bmap) /\ k < Cardinality(S \ bmap)
                                /\ FindFree(S, bmap, n) = FindFree(S, bmap, k) => n = k
<1> DEFINE P == S \ bmap
<1>1. P \subseteq Int /\ IsFiniteSet(P)
    BY FS_Difference
<1>2. \A n : FindFree(S, bmap, n) = CHOOSE b \in P : Cardinality({c \in P : c < b}) = n
    BY DEF FindFree
<1> HIDE DEF P
<1>3. /\ Cardinality(P) \in Nat
      /\ \A n \in Nat : n < Cardinality(P) =>
            \E k \in P : Cardinality({c \in P : c < k}) = n
    BY <1>1, Ranks
<1>4. \A n \in Nat : n < Cardinality(P) =>
        /\ FindFree(S, bmap, n) \in P
        /\ Cardinality({c \in P : c < FindFree(S, bmap, n)}) = n
    BY <1>2, <1>3
<1>5. \A n, k \in Nat : n < Cardinality(P) /\ k < Cardinality(P)
                        /\ FindFree(S, bmap, n) = FindFree(S, bmap, k) => n = k
    BY <1>4
<1>6. QED
    BY <1>3, <1>4, <1>5 DEF P

(* One is found whenever not all are taken. *)
LEMMA FirstFound ==
    ASSUME NEW S, S \subseteq Int, IsFiniteSet(S), NEW bmap \in SUBSET S, S # bmap
    PROVE  FindFree(S, bmap, 0) \in S \ bmap
<1> DEFINE P == S \ bmap
<1>1. P # {} /\ P \subseteq Int /\ IsFiniteSet(P)
    BY FS_Difference
<1>2. Cardinality(S \ bmap) = Cardinality(P)
    OBVIOUS
<1> HIDE DEF P
<1>3. Cardinality(P) \in Nat
    BY <1>1, FS_CardinalityType
<1>4. 0 < Cardinality(P)
    BY <1>1, <1>3, FS_EmptySet
<1>5. QED
    BY <1>2, <1>4, FreeFound

(* The blocks are numbered. *)
LEMMA BlockNumbers ==
    /\ Blocks \subseteq Int /\ IsFiniteSet(Blocks)
    /\ Inodes \subseteq Int /\ IsFiniteSet(Inodes)
    /\ Meta \subseteq Blocks /\ NoInode \in Inodes /\ Root \in Inodes
<1>1. 0 \in Int /\ NUM_BLOCKS - 1 \in Int /\ ITAB_SIZE - 1 \in Int
    BY FSAssumption
<1>2. IsFiniteSet(0 .. NUM_BLOCKS - 1) /\ IsFiniteSet(0 .. ITAB_SIZE - 1)
    BY <1>1, FS_Interval
<1>3. QED
    BY <1>1, <1>2, FSAssumption DEF Blocks, Inodes, Meta, NoInode, Root

-----------------------------------------------------------------------------
(* The inductive invariant *)

(* No block that a file or directory uses is free, holds metadata, or is used twice. *)
OwnedInv ==
    /\ \A f \in inode_bmap, s \in Slots :
          s < Used(f) => inode_tab[f].blocks[s] \in blk_bmap \ Meta
    /\ \A f, g \in inode_bmap, r, s \in Slots :
          r < Used(f) /\ s < Used(g) /\ inode_tab[f].blocks[r] = inode_tab[g].blocks[s]
          => f = g /\ r = s

Holds(d, pos) ==    \* directory d has an entry at pos
    d \in inode_bmap /\ inode_tab[d].type = "dir" /\ pos < inode_tab[d].size

InodeAt(d, pos) == CellIn(inode_tab, d, pos).inodeid

Named == inode_bmap \ {NoInode, Root}

NamesInv ==
    /\ \A d \in Inodes, pos \in Nat : Holds(d, pos) => InodeAt(d, pos) \in Named
    /\ \A f \in Named : \E d \in Inodes, pos \in Nat : Holds(d, pos) /\ InodeAt(d, pos) = f
    /\ \A d, e \in Inodes, pos, p \in Nat :
          Holds(d, pos) /\ Holds(e, p) /\ InodeAt(d, pos) = InodeAt(e, p) => d = e /\ pos = p

BitmapsInv ==
    /\ Meta \subseteq blk_bmap
    /\ {NoInode, Root} \subseteq inode_bmap
    /\ \A f \in Inodes \ inode_bmap : inode_tab[f].type = "none"

ImageInv == image[2] \subseteq Inodes /\ ImageCurrent

IInv == TypeOK /\ BitmapsInv /\ OwnedInv /\ NamesInv /\ ImageInv

-----------------------------------------------------------------------------
(* Inodes and their pages *)

LEMMA RecordType ==
    ASSUME TypeOK, NEW f \in Inodes
    PROVE  /\ inode_tab[f].type \in {"none", "dir", "file"}
           /\ inode_tab[f].size \in 0 .. INODE_NUM_BLKS * BLOCK_SIZE
           /\ inode_tab[f].size \in Nat
           /\ inode_tab[f].blocks \in [Slots -> Blocks]
           /\ inode_tab[f] \in InodeRecords
<1>1. INODE_NUM_BLKS \in Nat /\ BLOCK_SIZE \in Nat
    BY FSAssumption
<1>2. INODE_NUM_BLKS * BLOCK_SIZE \in Int
    BY <1>1
<1>3. inode_tab[f] \in InodeRecords
    BY DEF TypeOK
<1>4. QED
    BY <1>2, <1>3 DEF InodeRecords

(* A size fits the inode when its pages do. *)
LEMMA Fits ==
    ASSUME NEW p \in Nat
    PROVE  /\ OffsetToBlocks(p) \in Nat
           /\ OffsetToBlocks(p) <= INODE_NUM_BLKS <=> p \in 0 .. INODE_NUM_BLKS * BLOCK_SIZE
<1>1. INODE_NUM_BLKS \in Nat /\ BLOCK_SIZE \in Nat \ {0}
    BY FSAssumption
<1>2. /\ OffsetToBlocks(p) \in Nat
      /\ INODE_NUM_BLKS < OffsetToBlocks(p) <=> BLOCK_SIZE * INODE_NUM_BLKS < p
    BY <1>1, Pages
<1>3. BLOCK_SIZE * INODE_NUM_BLKS = INODE_NUM_BLKS * BLOCK_SIZE /\ INODE_NUM_BLKS * BLOCK_SIZE \in Int
    BY <1>1
<1>4. QED
    BY <1>1, <1>2, <1>3

LEMMA UsedSlots ==
    ASSUME TypeOK, NEW f \in Inodes
    PROVE  /\ Used(f) \in 0 .. INODE_NUM_BLKS /\ INODE_NUM_BLKS \in Nat
           /\ \A pos \in Nat : pos < inode_tab[f].size =>
                /\ pos \div BLOCK_SIZE \in Slots /\ pos \div BLOCK_SIZE < Used(f)
                /\ pos % BLOCK_SIZE \in Cells
<1>1. /\ inode_tab[f].size \in Nat /\ inode_tab[f].size \in 0 .. INODE_NUM_BLKS * BLOCK_SIZE
      /\ INODE_NUM_BLKS \in Nat
    BY RecordType, FSAssumption
<1>2. Used(f) \in 0 .. INODE_NUM_BLKS
    BY <1>1, Fits DEF Used
<1>3. ASSUME NEW pos \in Nat, pos < inode_tab[f].size
      PROVE  /\ pos \div BLOCK_SIZE \in Slots /\ pos \div BLOCK_SIZE < Used(f)
             /\ pos % BLOCK_SIZE \in Cells
  <2>1. /\ pos \div BLOCK_SIZE \in Nat /\ pos \div BLOCK_SIZE < Used(f)
        /\ pos % BLOCK_SIZE \in Cells
      BY <1>1, <1>3, InPage DEF Used
  <2>2. QED
      BY <1>1, <1>2, <2>1 DEF Slots
<1>4. QED
    BY <1>1, <1>2, <1>3

(* A cell is in a block of its file or directory. *)
LEMMA CellBlock ==
    ASSUME IInv, NEW f \in inode_bmap, NEW pos \in Nat, pos < inode_tab[f].size
    PROVE  /\ pos \div BLOCK_SIZE \in Slots /\ pos \div BLOCK_SIZE < Used(f)
           /\ pos % BLOCK_SIZE \in Cells
           /\ inode_tab[f].blocks[pos \div BLOCK_SIZE] \in Blocks \ Meta
           /\ inode_tab[f].blocks[pos \div BLOCK_SIZE] \in blk_bmap
<1>1. TypeOK /\ f \in Inodes
    BY DEF IInv, TypeOK
<1>2. /\ pos \div BLOCK_SIZE \in Slots /\ pos \div BLOCK_SIZE < Used(f)
      /\ pos % BLOCK_SIZE \in Cells
    BY <1>1, UsedSlots
<1>3. QED
    BY <1>1, <1>2 DEF IInv, OwnedInv, TypeOK

(* Names stay when directories do. *)
LEMMA NamesKept ==
    ASSUME NamesInv, inode_bmap' = inode_bmap,
           \A d \in Inodes : /\ inode_tab'[d].type = inode_tab[d].type
                             /\ inode_tab[d].type = "dir" => inode_tab'[d].size = inode_tab[d].size,
           \A d \in Inodes, pos \in Nat : Holds(d, pos) => InodeAt(d, pos)' = InodeAt(d, pos)
    PROVE  NamesInv'
<1>1. \A d \in Inodes, pos \in Nat : Holds(d, pos)' <=> Holds(d, pos)
    BY DEF Holds
<1>2. Named' = Named
    BY DEF Named
<1>3. QED
    BY <1>1, <1>2 DEF NamesInv

(* A call that ends with fsi_store_fsdata leaves the metadata on disk up to date. *)
LEMMA StoredIsCurrent ==
    ASSUME TypeOK', image' = meta'
    PROVE  ImageInv'
<1>1. image'[2] = inode_bmap' /\ image'[3] = inode_tab'
    BY DEF meta
<1>2. QED
    BY <1>1 DEF ImageInv, ImageCurrent, Read, CellIn, TypeOK

-----------------------------------------------------------------------------
(* fs_create and fs_mkdir *)

(* As long as there is a free inode, no directory has all the entries it can have. *)
LEMMA EntriesBound ==
    ASSUME IInv, NEW d \in inode_bmap, inode_tab[d].type = "dir", NEW f \in Inodes \ inode_bmap
    PROVE  inode_tab[d].size + 1 <= ITAB_SIZE - 2
<1> DEFINE size == inode_tab[d].size
           others == Inodes \ {NoInode, Root}
           room == others \ {f}
           at == [pos \in 0 .. size - 1 |-> InodeAt(d, pos)]
<1>1. d \in Inodes /\ size \in Nat /\ ITAB_SIZE \in Nat
    BY RecordType, FSAssumption DEF IInv, TypeOK
<1>2. IsFiniteSet(others) /\ Cardinality(others) = ITAB_SIZE - 2
  <2>1. others = 2 .. ITAB_SIZE - 1
      BY <1>1 DEF Inodes, NoInode, Root
  <2>2. 2 \in Int /\ ITAB_SIZE - 1 \in Int /\ ITAB_SIZE > 2
      BY FSAssumption
  <2> HIDE DEF others
  <2>3. /\ IsFiniteSet(2 .. ITAB_SIZE - 1)
        /\ Cardinality(2 .. ITAB_SIZE - 1) = IF 2 > ITAB_SIZE - 1 THEN 0 ELSE ITAB_SIZE - 1 - 2 + 1
      BY <2>2, FS_Interval
  <2>4. QED
      BY <1>1, <2>1, <2>2, <2>3
<1>3. f \in others
    BY DEF IInv, BitmapsInv
<1>4. \A pos \in 0 .. size - 1 : pos \in Nat /\ Holds(d, pos)
    BY <1>1 DEF Holds
<1>5. \A pos \in 0 .. size - 1 : InodeAt(d, pos) \in room
    BY <1>1, <1>4 DEF IInv, NamesInv, Named, TypeOK
<1>6. \A pos, p \in 0 .. size - 1 : InodeAt(d, pos) = InodeAt(d, p) => pos = p
    BY <1>1, <1>4 DEF IInv, NamesInv
<1> HIDE DEF others
<1>7. IsFiniteSet(room) /\ Cardinality(room) = ITAB_SIZE - 3
  <2>1. IsFiniteSet(room) /\ Cardinality(room) = Cardinality(others) - 1
      BY <1>2, <1>3, FS_RemoveElement
  <2>2. QED
      BY <1>1, <1>2, <2>1
<1> HIDE DEF room
<1>8. at \in Injection(0 .. size - 1, room)
    BY <1>5, <1>6 DEF Injection, IsInjective
<1>9. Cardinality(0 .. size - 1) = size
  <2>1. 0 \in Int /\ size - 1 \in Int
      BY <1>1
  <2>2. Cardinality(0 .. size - 1) = IF 0 > size - 1 THEN 0 ELSE size - 1 - 0 + 1
      BY <2>1, FS_Interval
  <2>3. QED
      BY <1>1, <2>2
<1> HIDE DEF at, size
<1>10. size <= ITAB_SIZE - 3
    BY <1>7, <1>8, <1>9, FS_Injection
<1>11. QED
    BY <1>1, <1>10 DEF size

(* The files and directories of F are as they were, and so is every cell of them. *)
SameIn(F) ==
    \A g \in F : /\ inode_tab'[g].type = inode_tab[g].type
                 /\ inode_tab'[g].size = inode_tab[g].size
                 /\ \A pos \in Nat : pos < inode_tab[g].size =>
                       CellIn(inode_tab, g, pos)' = CellIn(inode_tab, g, pos)

(* Where the new entry goes: the cell behind the last, in a free block if that starts a
   page. *)
LEMMA EntryPlace ==
    ASSUME IInv, NEW d \in inode_bmap, inode_tab[d].type = "dir", RoomForEntry(d),
           NEW size, size = inode_tab[d].size, NEW slot, slot = size \div BLOCK_SIZE,
           NEW block, block = IF NeedsPage(d) THEN FindFree(Blocks, blk_bmap, 0)
                              ELSE inode_tab[d].blocks[slot]
    PROVE  /\ FreeInode \in Inodes \ inode_bmap
           /\ size \in Nat /\ size + 1 \in 0 .. INODE_NUM_BLKS * BLOCK_SIZE
           /\ slot \in Slots /\ size % BLOCK_SIZE \in Cells
           /\ OffsetToBlocks(size + 1) = slot + 1
           /\ block \in Blocks \ Meta
           /\ \/ Used(d) = slot /\ block \notin blk_bmap
              \/ Used(d) = slot + 1 /\ block = inode_tab[d].blocks[slot] /\ block \in blk_bmap
<1>1. /\ TypeOK /\ d \in Inodes /\ size \in Nat /\ blk_bmap \in SUBSET Blocks
      /\ inode_bmap \in SUBSET Inodes /\ Meta \subseteq blk_bmap
    BY RecordType DEF IInv, TypeOK, BitmapsInv
<1>2. FreeInode \in Inodes \ inode_bmap
  <2>1. Inodes # inode_bmap
      BY DEF RoomForEntry
  <2>2. FindFree(Inodes, inode_bmap, 0) \in Inodes \ inode_bmap
      BY <1>1, <2>1, BlockNumbers, FirstFound
  <2>3. QED
      BY <2>2 DEF FreeInode
<1>3. size + 1 \in 0 .. INODE_NUM_BLKS * BLOCK_SIZE
  <2>1. size + 1 <= ITAB_SIZE - 2
      BY <1>2, EntriesBound
  <2>2. /\ ITAB_SIZE \in Nat /\ INODE_NUM_BLKS * BLOCK_SIZE \in Int
        /\ ITAB_SIZE - 2 <= INODE_NUM_BLKS * BLOCK_SIZE
      BY FSAssumption, DirectoryFits
  <2>3. QED
      BY <1>1, <2>1, <2>2
<1>4. /\ OffsetToBlocks(size + 1) = slot + 1
      /\ Used(d) = IF NeedsPage(d) THEN slot ELSE slot + 1
    BY <1>1, OneMore DEF Used, NeedsPage
<1>5. slot \in Slots /\ size % BLOCK_SIZE \in Cells
  <2>1. slot \in Nat /\ slot < OffsetToBlocks(size + 1) /\ size % BLOCK_SIZE \in Cells
      BY <1>1, InPage
  <2>2. OffsetToBlocks(size + 1) <= INODE_NUM_BLKS /\ OffsetToBlocks(size + 1) \in Nat
    <3>1. size + 1 \in Nat
        BY <1>1
    <3>2. QED
        BY <1>3, <3>1, Fits
  <2>3. QED
      BY <2>1, <2>2, FSAssumption DEF Slots
<1>6. CASE NeedsPage(d)
  <2>1. block \in Blocks \ blk_bmap
      BY <1>1, <1>6, BlockNumbers, FirstFound DEF RoomForEntry
  <2>2. QED
      BY <1>1, <1>2, <1>3, <1>4, <1>5, <1>6, <2>1
<1>7. CASE ~NeedsPage(d)
  <2>1. slot < Used(d)
      BY <1>4, <1>5, <1>7, FSAssumption DEF Slots
  <2>2. inode_tab[d].blocks[slot] \in blk_bmap \ Meta
      BY <1>1, <1>5, <2>1 DEF IInv, OwnedInv
  <2>3. QED
      BY <1>1, <1>2, <1>3, <1>4, <1>5, <1>7, <2>2
<1>8. QED
    BY <1>6, <1>7

(* Inode i is new, its name is behind the last entry of d, and nothing else that a file
   or a directory holds has changed. *)
Added(d, name, type, i) ==
    /\ i \in Inodes \ inode_bmap /\ inode_bmap' = inode_bmap \cup {i}
    /\ inode_tab'[i].type = type /\ inode_tab'[i].size = 0
    /\ \A g \in inode_bmap : /\ inode_tab'[g].type = inode_tab[g].type
                             /\ g # d => inode_tab'[g].size = inode_tab[g].size
    /\ inode_tab'[d].size = inode_tab[d].size + 1
    /\ \A g \in inode_bmap, pos \in Nat : pos < inode_tab[g].size =>
          CellIn(inode_tab, g, pos)' = CellIn(inode_tab, g, pos)
    /\ \A pos \in Nat : pos = inode_tab[d].size =>
          CellIn(inode_tab, d, pos)' = [name |-> name, inodeid |-> i]

(* One more entry, and its inode. *)
LEMMA AddKeeps ==
    ASSUME IInv, NEW d, IsDirectory(d), NEW name \in Names, NEW type \in {"dir", "file"},
           AddEntry(d, name, type), NEW i, i = FreeInode
    PROVE  IInv' /\ Added(d, name, type, i)
<1>a. i = FreeInode
    OBVIOUS
<1>b. PICK size : size = inode_tab[d].size
    OBVIOUS
<1>c. PICK slot : slot = size \div BLOCK_SIZE
    OBVIOUS
<1>d. PICK cell : cell = size % BLOCK_SIZE
    OBVIOUS
<1>e. PICK block : block = IF NeedsPage(d) THEN FindFree(Blocks, blk_bmap, 0)
                           ELSE inode_tab[d].blocks[slot]
    OBVIOUS
<1>f. PICK entry : entry = [name |-> name, inodeid |-> i]
    OBVIOUS
<1>1. /\ TypeOK /\ BitmapsInv /\ OwnedInv /\ NamesInv
      /\ d \in inode_bmap /\ inode_tab[d].type = "dir" /\ d \in Inodes
      /\ inode_tab \in [Inodes -> InodeRecords]
    BY DEF IInv, IsDirectory, TypeOK
<1>2. /\ i \in Inodes \ inode_bmap
      /\ size \in Nat /\ size + 1 \in 0 .. INODE_NUM_BLKS * BLOCK_SIZE
      /\ slot \in Slots /\ cell \in Cells
      /\ OffsetToBlocks(size + 1) = slot + 1
      /\ block \in Blocks \ Meta
      /\ \/ Used(d) = slot /\ block \notin blk_bmap
         \/ Used(d) = slot + 1 /\ block = inode_tab[d].blocks[slot] /\ block \in blk_bmap
  <2>1. IInv /\ RoomForEntry(d)
      BY DEF AddEntry
  <2>2. QED
      BY <1>1, <1>a, <1>b, <1>c, <1>d, <1>e, <2>1, EntryPlace
<1>3. i # d /\ i # NoInode /\ i # Root
    BY <1>1, <1>2 DEF BitmapsInv
<1>4. /\ blk_bmap' = blk_bmap \cup {block} /\ inode_bmap' = inode_bmap \cup {i}
      /\ inode_tab' = [inode_tab EXCEPT
             ![d].size = size + 1, ![d].blocks[slot] = block, ![i] = NewInode(type)]
      /\ disk' = [disk EXCEPT ![block][cell] = entry]
      /\ image' = meta' /\ asked' = None
    BY <1>a, <1>b, <1>c, <1>d, <1>e, <1>f DEF AddEntry, BMAP_SET, StoreFsData
<1>5. /\ inode_tab[d] \in InodeRecords
      /\ inode_tab[d].blocks \in [Slots -> Blocks]
      /\ \A g \in Inodes : inode_tab[g].size \in Nat /\ Used(g) \in Nat
    BY <1>1, RecordType, UsedSlots
<1>6. /\ inode_tab'[d] = [inode_tab[d] EXCEPT !.size = size + 1, !.blocks[slot] = block]
      /\ inode_tab'[i] = NewInode(type)
      /\ \A g \in Inodes \ {d, i} : inode_tab'[g] = inode_tab[g]
      /\ DOMAIN inode_tab' = Inodes
      /\ inode_tab' = [g \in Inodes |-> inode_tab'[g]]
    BY <1>1, <1>2, <1>3, <1>4
<1>7. /\ inode_tab'[d].type = "dir" /\ inode_tab'[d].size = size + 1
      /\ inode_tab'[d].blocks[slot] = block
      /\ \A s \in Slots \ {slot} : inode_tab'[d].blocks[s] = inode_tab[d].blocks[s]
      /\ inode_tab'[d] \in InodeRecords
  <2> DEFINE nb == [inode_tab[d].blocks EXCEPT ![slot] = block]
  <2>1. /\ nb \in [Slots -> Blocks] /\ nb[slot] = block
        /\ \A s \in Slots \ {slot} : nb[s] = inode_tab[d].blocks[s]
      BY <1>2, <1>5
  <2>2. inode_tab'[d] = [inode_tab[d] EXCEPT !.size = size + 1, !.blocks = nb]
      BY <1>5, <1>6 DEF InodeRecords
  <2> HIDE DEF nb
  <2>3. /\ inode_tab'[d].type = "dir" /\ inode_tab'[d].size = size + 1
        /\ inode_tab'[d].blocks = nb /\ inode_tab'[d] \in InodeRecords
      BY <1>1, <1>2, <1>5, <2>1, <2>2 DEF InodeRecords
  <2>4. QED
      BY <2>1, <2>3
<1>8. /\ inode_tab'[i].type = type /\ inode_tab'[i].size = 0
      /\ inode_tab'[i] \in InodeRecords
  <2>1. 0 \in Blocks /\ 0 \in 0 .. INODE_NUM_BLKS * BLOCK_SIZE
      BY <1>2, FSAssumption DEF Blocks
  <2>2. QED
      BY <1>6, <2>1 DEF NewInode, InodeRecords
<1>9. TypeOK'
  <2>1. \A g \in Inodes : inode_tab'[g] \in InodeRecords
      BY <1>1, <1>6, <1>7, <1>8
  <2>2. inode_tab' \in [Inodes -> InodeRecords]
      BY <1>6, <2>1
  <2>3. entry \in Entries
      BY <1>2, <1>f DEF Entries
  <2>4. disk' \in [Blocks \ Meta -> [Cells -> Entries \cup Data \cup {Junk}]]
      BY <1>1, <1>2, <1>4, <2>3 DEF TypeOK
  <2>5. QED
      BY <1>1, <1>2, <1>4, <2>2, <2>4 DEF TypeOK
<1>10. /\ Used(d)' = slot + 1 /\ Used(i)' = 0
       /\ \A g \in Inodes \ {d, i} : Used(g)' = Used(g)
  <2>1. OffsetToBlocks(0) \in Nat /\ ~(0 < OffsetToBlocks(0))
      BY Pages, FSAssumption
  <2>2. OffsetToBlocks(0) = 0
      BY <2>1
  <2>3. QED
      BY <1>2, <1>6, <1>7, <1>8, <2>2 DEF Used
<1>11. BitmapsInv'
    BY <1>1, <1>4, <1>6 DEF BitmapsInv
<1>12. OwnedInv'
  <2>1. ASSUME NEW f \in inode_bmap', NEW s \in Slots, s < Used(f)'
        PROVE  \/ f = d /\ s = slot /\ inode_tab'[f].blocks[s] = block
               \/ /\ f \in inode_bmap /\ s < Used(f)
                  /\ (f # d \/ s # slot)
                  /\ inode_tab'[f].blocks[s] = inode_tab[f].blocks[s]
    <3>1. s \in Nat /\ slot \in Nat
        BY <1>2 DEF Slots
    <3>2. f \in Inodes /\ f # i
        BY <1>1, <1>2, <1>4, <1>10, <2>1, <3>1 DEF TypeOK
    <3>3. CASE f = d
      <4>1. s < slot + 1
          BY <1>10, <2>1, <3>3
      <4>2. s = slot \/ s < Used(d)
          BY <1>2, <3>1, <4>1
      <4>3. QED
          BY <1>1, <1>7, <3>3, <4>2
    <3>4. CASE f # d
        BY <1>4, <1>6, <1>10, <2>1, <3>2, <3>4
    <3>5. QED
        BY <3>3, <3>4
  <2>2. ASSUME NEW f \in inode_bmap, NEW s \in Slots, s < Used(f), f # d \/ s # slot
        PROVE  inode_tab[f].blocks[s] # block /\ inode_tab[f].blocks[s] \in blk_bmap \ Meta
    <3>1. inode_tab[f].blocks[s] \in blk_bmap \ Meta
        BY <1>1, <2>2 DEF OwnedInv
    <3>2. CASE block \notin blk_bmap
        BY <3>1, <3>2
    <3>3. CASE Used(d) = slot + 1 /\ block = inode_tab[d].blocks[slot]
      <4>1. slot < Used(d)
          BY <1>2, <3>3 DEF Slots
      <4>2. QED
          BY <1>1, <1>2, <2>2, <3>1, <3>3, <4>1 DEF OwnedInv
    <3>4. QED
        BY <1>2, <3>2, <3>3
  <2>3. \A f \in inode_bmap', s \in Slots :
            s < Used(f)' => inode_tab'[f].blocks[s] \in blk_bmap' \ Meta
    <3>1. SUFFICES ASSUME NEW f \in inode_bmap', NEW s \in Slots, s < Used(f)'
                   PROVE  inode_tab'[f].blocks[s] \in blk_bmap' \ Meta
        OBVIOUS
    <3>2. CASE f = d /\ s = slot /\ inode_tab'[f].blocks[s] = block
        BY <1>2, <1>4, <3>2
    <3>3. CASE /\ f \in inode_bmap /\ s < Used(f) /\ (f # d \/ s # slot)
               /\ inode_tab'[f].blocks[s] = inode_tab[f].blocks[s]
      <4>1. inode_tab[f].blocks[s] \in blk_bmap \ Meta
          BY <2>2, <3>3
      <4>2. QED
          BY <1>4, <3>3, <4>1
    <3>4. QED
        BY <2>1, <3>1, <3>2, <3>3
  <2>4. ASSUME NEW f \in inode_bmap', NEW g \in inode_bmap', NEW r \in Slots, NEW s \in Slots,
               r < Used(f)', s < Used(g)', inode_tab'[f].blocks[r] = inode_tab'[g].blocks[s]
        PROVE  f = g /\ r = s
    <3>1. CASE f = d /\ r = slot /\ inode_tab'[f].blocks[r] = block
        BY <2>1, <2>2, <2>4, <3>1
    <3>2. CASE /\ f \in inode_bmap /\ r < Used(f) /\ (f # d \/ r # slot)
               /\ inode_tab'[f].blocks[r] = inode_tab[f].blocks[r]
      <4>1. CASE g = d /\ s = slot /\ inode_tab'[g].blocks[s] = block
          BY <2>2, <2>4, <3>2, <4>1
      <4>2. CASE /\ g \in inode_bmap /\ s < Used(g)
                 /\ inode_tab'[g].blocks[s] = inode_tab[g].blocks[s]
          BY <1>1, <2>4, <3>2, <4>2 DEF OwnedInv
      <4>3. QED
          BY <2>1, <2>4, <4>1, <4>2
    <3>3. QED
        BY <2>1, <2>4, <3>1, <3>2
  <2>5. QED
      BY <2>3, <2>4 DEF OwnedInv
<1>13. \A e \in inode_bmap, pos \in Nat : pos < inode_tab[e].size =>
        CellIn(inode_tab, e, pos)' = CellIn(inode_tab, e, pos)
  <2>1. SUFFICES ASSUME NEW e \in inode_bmap, NEW pos \in Nat, pos < inode_tab[e].size
                 PROVE  CellIn(inode_tab, e, pos)' = CellIn(inode_tab, e, pos)
      OBVIOUS
  <2> DEFINE page == pos \div BLOCK_SIZE
             c == pos % BLOCK_SIZE
             b == inode_tab[e].blocks[page]
  <2>2. /\ page \in Slots /\ page < Used(e) /\ c \in Cells
        /\ b \in Blocks \ Meta /\ b \in blk_bmap
      BY <2>1, CellBlock
  <2>3. /\ pos = BLOCK_SIZE * page + c /\ size = BLOCK_SIZE * slot + cell
      BY <1>2, <1>c, <1>d, FSAssumption, Division
  <2>4. e # i /\ e \in Inodes
      BY <1>1, <1>2, <2>1 DEF TypeOK
  <2> HIDE DEF page, c
  <2>5. b = block => e = d /\ page = slot
      BY <1>1, <1>2, <2>1, <2>2 DEF OwnedInv, Slots
  <2>6. inode_tab'[e].blocks[page] = b
    <3>1. e = d => page # slot \/ b = block
        BY <1>2, <2>2 DEF Slots
    <3>2. CASE e = d
        BY <1>7, <2>2, <3>1, <3>2
    <3>3. CASE e # d
        BY <1>6, <2>4, <3>3
    <3>4. QED
        BY <3>2, <3>3
  <2>7. ~(b = block /\ c = cell)
    <3>1. BLOCK_SIZE * slot \in Int /\ cell \in Int
        BY <1>2, FSAssumption DEF Slots, Cells
    <3>2. SUFFICES ASSUME b = block, c = cell
                   PROVE  FALSE
        OBVIOUS
    <3>3. e = d /\ page = slot
        BY <2>5, <3>2
    <3>4. pos = size
        BY <2>3, <3>2, <3>3
    <3>5. QED
        BY <1>2, <1>b, <2>1, <3>3, <3>4
  <2>8. disk'[b][c] = disk[b][c]
      BY <1>1, <1>4, <2>2, <2>7 DEF TypeOK
  <2>9. /\ CellIn(inode_tab, e, pos) = disk[b][c]
        /\ CellIn(inode_tab, e, pos)' = disk'[b][c]
      BY <2>6 DEF CellIn, page, c
  <2>10. QED
      BY <2>8, <2>9
<1>14. CellIn(inode_tab, d, size)' = entry
  <2>1. CellIn(inode_tab, d, size)' = disk'[block][cell]
      BY <1>7, <1>c, <1>d DEF CellIn
  <2>2. disk'[block][cell] = entry
      BY <1>1, <1>2, <1>4 DEF TypeOK
  <2>3. QED
      BY <2>1, <2>2
<1>15. NamesInv'
  <2>1. ASSUME NEW e \in Inodes, NEW pos \in Nat, Holds(e, pos)
        PROVE  Holds(e, pos)' /\ InodeAt(e, pos)' = InodeAt(e, pos)
    <3>1. e \in inode_bmap /\ e # i /\ inode_tab[e].type = "dir" /\ pos < inode_tab[e].size
        BY <1>2, <2>1 DEF Holds
    <3>2. Holds(e, pos)'
        BY <1>2, <1>4, <1>6, <1>7, <1>b, <3>1 DEF Holds
    <3>3. InodeAt(e, pos)' = InodeAt(e, pos)
        BY <1>13, <3>1 DEF InodeAt
    <3>4. QED
        BY <3>2, <3>3
  <2>2. Holds(d, size)' /\ InodeAt(d, size)' = i
    <3>1. Holds(d, size)'
        BY <1>1, <1>2, <1>4, <1>7 DEF Holds
    <3>2. QED
        BY <1>14, <1>f, <3>1 DEF InodeAt
  <2>3. ASSUME NEW e \in Inodes, NEW pos \in Nat, Holds(e, pos)'
        PROVE  Holds(e, pos) \/ (e = d /\ pos = size)
    <3>1. /\ e \in inode_bmap \cup {i}
          /\ inode_tab'[e].type = "dir" /\ pos < inode_tab'[e].size
        BY <1>4, <2>3 DEF Holds
    <3>2. e # i
        BY <1>8, <3>1
    <3>3. CASE e = d
        BY <1>1, <1>2, <1>7, <1>b, <3>1, <3>3 DEF Holds
    <3>4. CASE e # d
        BY <1>6, <3>1, <3>2, <3>4 DEF Holds
    <3>5. QED
        BY <3>3, <3>4
  <2>4. Named' = Named \cup {i} /\ i \notin Named
      BY <1>2, <1>3, <1>4 DEF Named
  <2>5. ~Holds(d, size) /\ d \in Inodes /\ size \in Nat
      BY <1>1, <1>2, <1>b DEF Holds
  <2>6. \A e \in Inodes, pos \in Nat : Holds(e, pos)' => InodeAt(e, pos)' \in Named'
      BY <1>1, <2>1, <2>2, <2>3, <2>4 DEF NamesInv
  <2>7. \A f \in Named' : \E e \in Inodes, pos \in Nat : Holds(e, pos)' /\ InodeAt(e, pos)' = f
    <3>1. SUFFICES ASSUME NEW f \in Named'
                   PROVE  \E e \in Inodes, pos \in Nat : Holds(e, pos)' /\ InodeAt(e, pos)' = f
        OBVIOUS
    <3>2. CASE f = i
        BY <2>2, <2>5, <3>2
    <3>3. CASE f \in Named
      <4>1. PICK e \in Inodes, pos \in Nat : Holds(e, pos) /\ InodeAt(e, pos) = f
          BY <1>1, <3>3 DEF NamesInv
      <4>2. QED
          BY <2>1, <4>1
    <3>4. QED
        BY <2>4, <3>2, <3>3
  <2>8. ASSUME NEW e \in Inodes, NEW g \in Inodes, NEW pos \in Nat, NEW p \in Nat,
               Holds(e, pos)', Holds(g, p)', InodeAt(e, pos)' = InodeAt(g, p)'
        PROVE  e = g /\ pos = p
    <3>1. Holds(e, pos) => InodeAt(e, pos) \in Named
        BY <1>1 DEF NamesInv
    <3>2. Holds(g, p) => InodeAt(g, p) \in Named
        BY <1>1 DEF NamesInv
    <3>3. CASE Holds(e, pos) /\ Holds(g, p)
        BY <1>1, <2>1, <2>8, <3>3 DEF NamesInv
    <3>4. CASE ~Holds(e, pos) /\ ~Holds(g, p)
        BY <2>3, <2>8, <3>4
    <3>5. CASE Holds(e, pos) /\ ~Holds(g, p)
        BY <2>1, <2>2, <2>3, <2>4, <2>8, <3>1, <3>5
    <3>6. CASE ~Holds(e, pos) /\ Holds(g, p)
        BY <2>1, <2>2, <2>3, <2>4, <2>8, <3>2, <3>6
    <3>7. QED
        BY <3>3, <3>4, <3>5, <3>6
  <2>9. QED
      BY <2>6, <2>7, <2>8 DEF NamesInv
<1>16. ImageInv'
    BY <1>4, <1>9, StoredIsCurrent
<1>17. Added(d, name, type, i)
  <2>1. /\ \A g \in inode_bmap : /\ g \in Inodes /\ g # i
                                 /\ inode_tab'[g].type = inode_tab[g].type
                                 /\ g # d => inode_tab'[g].size = inode_tab[g].size
      BY <1>1, <1>2, <1>6, <1>7 DEF TypeOK
  <2>2. \A pos \in Nat : pos = inode_tab[d].size => CellIn(inode_tab, d, pos)' = entry
      BY <1>14, <1>b
  <2>3. QED
      BY <1>2, <1>4, <1>7, <1>8, <1>13, <1>b, <1>f, <2>1, <2>2 DEF Added
<1>18. QED
    BY <1>9, <1>11, <1>12, <1>15, <1>16, <1>17 DEF IInv

-----------------------------------------------------------------------------
(* fs_write and fs_truncate *)

(* In tab, inode f has n more blocks, which were free and are different ones. *)
Grown(f, n, tab) ==
    /\ tab \in [Inodes -> InodeRecords]
    /\ \A g \in Inodes \ {f} : tab[g] = inode_tab[g]
    /\ tab[f].type = inode_tab[f].type /\ tab[f].size = inode_tab[f].size
    /\ \A s \in Slots : s < Used(f) => tab[f].blocks[s] = inode_tab[f].blocks[s]
    /\ \A s \in Slots : ~(s < Used(f)) /\ s < Used(f) + n =>
         tab[f].blocks[s] \in Blocks \ blk_bmap
    /\ \A r, s \in Slots :
         /\ ~(r < Used(f)) /\ r < Used(f) + n /\ ~(s < Used(f)) /\ s < Used(f) + n
         /\ tab[f].blocks[r] = tab[f].blocks[s]
         => r = s

(* The blocks that a write reserves were free and are different ones. *)
LEMMA NewBlocks ==
    ASSUME TypeOK, NEW f \in Inodes, NEW n \in Nat,
           n <= Cardinality(Blocks \ blk_bmap), Used(f) + n <= INODE_NUM_BLKS,
           NEW tab, tab = Reserved(f, n)
    PROVE  Grown(f, n, tab)
<1>1. /\ inode_tab \in [Inodes -> InodeRecords] /\ inode_tab[f] \in InodeRecords
      /\ inode_tab[f].blocks \in [Slots -> Blocks] /\ Used(f) \in Nat
    BY RecordType, UsedSlots DEF TypeOK
<1>a. /\ Cardinality(Blocks \ blk_bmap) \in Nat
      /\ \A k \in Nat : k < Cardinality(Blocks \ blk_bmap) =>
            FindFree(Blocks, blk_bmap, k) \in Blocks \ blk_bmap
      /\ \A j, k \in Nat :
            j < Cardinality(Blocks \ blk_bmap) /\ k < Cardinality(Blocks \ blk_bmap)
            /\ FindFree(Blocks, blk_bmap, j) = FindFree(Blocks, blk_bmap, k) => j = k
    BY BlockNumbers, FreeFound
<1> DEFINE new(s) == FindFree(Blocks, blk_bmap, s - Used(f))
           nb == [s \in Slots |-> IF s >= Used(f) /\ s < Used(f) + n THEN new(s)
                                  ELSE inode_tab[f].blocks[s]]
<1>2. tab = [inode_tab EXCEPT ![f].blocks = nb]
    BY <1>1 DEF Reserved
<1>3. \A s \in Slots : ~(s < Used(f)) /\ s < Used(f) + n =>
        new(s) \in Blocks \ blk_bmap
  <2>1. SUFFICES ASSUME NEW s \in Slots, ~(s < Used(f)), s < Used(f) + n
                 PROVE  new(s) \in Blocks \ blk_bmap
      OBVIOUS
  <2>2. s - Used(f) \in Nat /\ s - Used(f) < n
      BY <1>1, <2>1 DEF Slots
  <2>3. s - Used(f) < Cardinality(Blocks \ blk_bmap)
      BY <1>a, <2>2
  <2>4. QED
      BY <1>a, <2>2, <2>3
<1>4. \A r, s \in Slots :
        ~(r < Used(f)) /\ r < Used(f) + n /\ ~(s < Used(f)) /\ s < Used(f) + n
        /\ new(r) = new(s) => r = s
  <2>1. SUFFICES ASSUME NEW r \in Slots, NEW s \in Slots, ~(r < Used(f)), r < Used(f) + n,
                        ~(s < Used(f)), s < Used(f) + n, new(r) = new(s)
                 PROVE  r = s
      OBVIOUS
  <2>2. /\ r - Used(f) \in Nat /\ r - Used(f) < n
        /\ s - Used(f) \in Nat /\ s - Used(f) < n
      BY <1>1, <2>1 DEF Slots
  <2>3. /\ r - Used(f) < Cardinality(Blocks \ blk_bmap)
        /\ s - Used(f) < Cardinality(Blocks \ blk_bmap)
      BY <1>a, <2>2
  <2>4. r - Used(f) = s - Used(f)
      BY <1>a, <2>1, <2>2, <2>3
  <2>5. QED
      BY <1>1, <2>4 DEF Slots
<1> HIDE DEF new
<1>5. /\ nb \in [Slots -> Blocks]
      /\ \A s \in Slots : nb[s] = IF ~(s < Used(f)) /\ s < Used(f) + n THEN new(s)
                                    ELSE inode_tab[f].blocks[s]
  <2>1. \A s \in Slots : s >= Used(f) <=> ~(s < Used(f))
      BY <1>1 DEF Slots
  <2>2. QED
      BY <1>1, <1>3, <2>1
<1> HIDE DEF nb
<1>6. /\ tab \in [Inodes -> InodeRecords]
      /\ \A g \in Inodes \ {f} : tab[g] = inode_tab[g]
      /\ tab[f].type = inode_tab[f].type /\ tab[f].size = inode_tab[f].size
      /\ tab[f].blocks = nb
    BY <1>1, <1>2, <1>5 DEF InodeRecords
<1>7. QED
    BY <1>3, <1>4, <1>5, <1>6 DEF Grown

(* What is read of a file stays as long as its cells do. *)
LEMMA ReadSame ==
    ASSUME TypeOK, NEW f \in Inodes, inode_tab'[f].size = inode_tab[f].size,
           \A pos \in Nat : pos < inode_tab[f].size =>
               CellIn(inode_tab, f, pos)' = CellIn(inode_tab, f, pos)
    PROVE  Read(inode_tab, f, 0, inode_tab[f].size)' = Read(inode_tab, f, 0, inode_tab[f].size)
<1>1. inode_tab[f].size \in Nat
    BY RecordType
<1>2. Least(inode_tab[f].size, inode_tab[f].size - 0) = inode_tab[f].size
    BY <1>1 DEF Least
<1>3. \A k \in 1 .. inode_tab[f].size :
        CellIn(inode_tab, f, 0 + k - 1)' = CellIn(inode_tab, f, 0 + k - 1)
    BY <1>1
<1>4. QED
    BY <1>2, <1>3 DEF Read

(* A call that changes nothing, and one that changes none of the variables. *)
LEMMA RefusedKeeps ==
    ASSUME IInv, Refused \/ UNCHANGED vars
    PROVE  IInv' /\ inode_bmap' = inode_bmap /\ SameIn(inode_bmap)
<1>1. UNCHANGED <<blk_bmap, inode_bmap, inode_tab, disk, image>>
    BY DEF Refused, vars, meta
<1>2. TypeOK' /\ BitmapsInv'
    BY <1>1 DEF IInv, TypeOK, BitmapsInv
<1>3. OwnedInv'
    BY <1>1 DEF IInv, OwnedInv, Used
<1>4. NamesInv'
  <2>1. \A d \in Inodes, pos \in Nat : InodeAt(d, pos)' = InodeAt(d, pos)
      BY <1>1 DEF InodeAt, CellIn
  <2>2. QED
      BY <1>1, <2>1, NamesKept DEF IInv
<1>5. ImageInv'
    BY <1>1 DEF IInv, ImageInv, ImageCurrent, Read, CellIn
<1>6. SameIn(inode_bmap)
    BY <1>1 DEF SameIn, CellIn
<1>7. QED
    BY <1>1, <1>2, <1>3, <1>4, <1>5, <1>6 DEF IInv

(* Too few blocks: f's inode has numbers of blocks behind those it uses. *)
LEMMA WriteFailsKeeps ==
    ASSUME IInv, NEW f \in Inodes, NEW start \in Nat, NEW count \in Nat, WriteFails(f, start, count)
    PROVE  IInv' /\ inode_bmap' = inode_bmap /\ SameIn(inode_bmap)
<1>a. PICK free : free = Cardinality(Blocks \ blk_bmap)
    OBVIOUS
<1>b. PICK need : need = Required(f, StartAt(f, start), count)
    OBVIOUS
<1>1. /\ TypeOK /\ BitmapsInv /\ OwnedInv /\ NamesInv /\ ImageInv
      /\ f \in inode_bmap /\ inode_tab[f].type = "file"
      /\ Used(f) \in Nat /\ INODE_NUM_BLKS \in Nat
    BY UsedSlots DEF IInv, WriteFails, IsFile
<1>2. free \in Nat /\ Used(f) + free <= INODE_NUM_BLKS
  <2>1. free \in Nat
      BY <1>a, BlockNumbers, FreeFound
  <2>2. StartAt(f, start) \in Nat
      BY <1>1, RecordType DEF StartAt, Least
  <2>3. OffsetToBlocks(StartAt(f, start) + count) \in Nat
      BY <2>2, Pages
  <2>4. need \in Int
      BY <1>1, <1>b, <2>3 DEF Required, Most
  <2>5. need <= INODE_NUM_BLKS - Used(f) /\ free < need
      BY <1>a, <1>b DEF WriteFails, FitsInode
  <2>6. QED
      BY <1>1, <2>1, <2>4, <2>5
<1>3. /\ inode_tab' = Reserved(f, free) /\ blk_bmap' = Blocks
      /\ inode_bmap' = inode_bmap /\ disk' = disk /\ image' = image
    BY <1>a DEF WriteFails
<1>4. free <= Cardinality(Blocks \ blk_bmap)
    BY <1>a, <1>2
<1>5. /\ inode_tab' \in [Inodes -> InodeRecords]
      /\ \A g \in Inodes \ {f} : inode_tab'[g] = inode_tab[g]
      /\ inode_tab'[f].type = inode_tab[f].type /\ inode_tab'[f].size = inode_tab[f].size
      /\ \A s \in Slots : s < Used(f) => inode_tab'[f].blocks[s] = inode_tab[f].blocks[s]
  <2>1. PICK tab : tab = Reserved(f, free)
      OBVIOUS
  <2>2. Grown(f, free, tab)
      BY <1>1, <1>2, <1>4, <2>1, NewBlocks
  <2>3. inode_tab' = tab
      BY <1>3, <2>1
  <2>4. QED
      BY <2>2, <2>3 DEF Grown
<1>6. /\ \A g \in Inodes : /\ inode_tab'[g].type = inode_tab[g].type
                            /\ inode_tab'[g].size = inode_tab[g].size /\ Used(g)' = Used(g)
      /\ \A g \in Inodes, s \in Slots : s < Used(g) =>
            inode_tab'[g].blocks[s] = inode_tab[g].blocks[s]
    BY <1>5 DEF Used
<1>7. TypeOK' /\ BitmapsInv'
    BY <1>1, <1>3, <1>5, <1>6, BlockNumbers DEF TypeOK, BitmapsInv
<1>8. OwnedInv'
  <2>1. \A g \in inode_bmap' : g \in inode_bmap /\ g \in Inodes
      BY <1>1, <1>3 DEF TypeOK
  <2>2. blk_bmap \subseteq blk_bmap'
      BY <1>1, <1>3 DEF TypeOK
  <2>3. QED
      BY <1>1, <1>6, <2>1, <2>2 DEF OwnedInv
<1>9. \A g \in Inodes, pos \in Nat : pos < inode_tab[g].size =>
        CellIn(inode_tab, g, pos)' = CellIn(inode_tab, g, pos)
  <2>1. SUFFICES ASSUME NEW g \in Inodes, NEW pos \in Nat, pos < inode_tab[g].size
                 PROVE  CellIn(inode_tab, g, pos)' = CellIn(inode_tab, g, pos)
      OBVIOUS
  <2>2. pos \div BLOCK_SIZE \in Slots /\ pos \div BLOCK_SIZE < Used(g)
      BY <1>1, <2>1, UsedSlots
  <2>3. QED
      BY <1>3, <1>6, <2>2 DEF CellIn
<1>10. NamesInv'
    BY <1>1, <1>3, <1>6, <1>9, NamesKept DEF Holds, InodeAt
<1>11. ImageInv'
  <2>1. image[2] \subseteq Inodes /\ ImageCurrent
      BY <1>1 DEF ImageInv
  <2>2. SUFFICES ASSUME NEW g \in image[2], image[3][g].type = "file", inode_tab[g].size # 0
                 PROVE  Read(image[3], g, 0, image[3][g].size)'
                        = Read(inode_tab, g, 0, inode_tab[g].size)'
      BY <1>3, <1>6, <2>1 DEF ImageInv, ImageCurrent
  <2>3. Read(image[3], g, 0, image[3][g].size)' = Read(image[3], g, 0, image[3][g].size)
      BY <1>3 DEF Read, CellIn
  <2>4. Read(inode_tab, g, 0, inode_tab[g].size)' = Read(inode_tab, g, 0, inode_tab[g].size)
      BY <1>1, <1>6, <1>9, <2>1, ReadSame
  <2>5. QED
      BY <2>1, <2>2, <2>3, <2>4 DEF ImageCurrent
<1>12. SameIn(inode_bmap)
    BY <1>1, <1>6, <1>9 DEF SameIn, TypeOK
<1>13. QED
    BY <1>3, <1>7, <1>8, <1>10, <1>11, <1>12 DEF IInv

(* f is an empty file now, and the others are as they were. *)
Emptied(f) ==
    /\ f \in inode_bmap /\ inode_bmap' = inode_bmap
    /\ inode_tab'[f].type = inode_tab[f].type /\ inode_tab'[f].size = 0
    /\ SameIn(inode_bmap \ {f})

(* A truncated file has no blocks, and no other file loses one. *)
LEMMA TruncateKeeps ==
    ASSUME IInv, NEW f \in Inodes, Truncate(f)
    PROVE  IInv' /\ Emptied(f)
<1>a. PICK old : old = {inode_tab[f].blocks[s] : s \in 0 .. Used(f) - 1}
    OBVIOUS
<1>1. /\ TypeOK /\ BitmapsInv /\ OwnedInv /\ NamesInv /\ ImageInv
      /\ inode_tab[f].type = "file" /\ f \in inode_bmap
      /\ Used(f) \in 0 .. INODE_NUM_BLKS /\ INODE_NUM_BLKS \in Nat
      /\ inode_tab \in [Inodes -> InodeRecords] /\ inode_tab[f] \in InodeRecords
    BY UsedSlots DEF IInv, Truncate, BitmapsInv, TypeOK
<1>2. /\ inode_tab' = [inode_tab EXCEPT ![f].size = 0] /\ blk_bmap' = blk_bmap \ old
      /\ inode_bmap' = inode_bmap /\ disk' = disk /\ image' = image
    BY <1>a DEF Truncate
<1>3. 0 \in 0 .. INODE_NUM_BLKS * BLOCK_SIZE
  <2>1. INODE_NUM_BLKS \in Nat /\ BLOCK_SIZE \in Nat
      BY FSAssumption
  <2>2. QED
      BY <2>1
<1>4. /\ inode_tab' \in [Inodes -> InodeRecords]
      /\ \A g \in Inodes \ {f} : inode_tab'[g] = inode_tab[g]
      /\ inode_tab'[f].type = "file" /\ inode_tab'[f].size = 0
    BY <1>1, <1>2, <1>3 DEF InodeRecords
<1>5. Used(f)' = 0 /\ \A g \in Inodes \ {f} : Used(g)' = Used(g)
  <2>1. OffsetToBlocks(0) \in Nat /\ ~(0 < OffsetToBlocks(0))
      BY Pages, FSAssumption
  <2>2. OffsetToBlocks(0) = 0
      BY <2>1
  <2>3. QED
      BY <1>4, <2>2 DEF Used
<1>6. \A b \in old : \E s \in Slots : s < Used(f) /\ b = inode_tab[f].blocks[s]
  <2>1. \A s \in 0 .. Used(f) - 1 : s \in Slots /\ s < Used(f)
      BY <1>1 DEF Slots
  <2>2. QED
      BY <1>a, <2>1
<1>7. TypeOK'
    BY <1>1, <1>2, <1>4 DEF TypeOK
<1>8. BitmapsInv'
  <2>1. \A b \in old : b \notin Meta
      BY <1>1, <1>6 DEF OwnedInv
  <2>2. QED
      BY <1>1, <1>2, <1>4, <2>1 DEF BitmapsInv
<1>9. OwnedInv'
  <2>1. ASSUME NEW g \in inode_bmap', NEW s \in Slots, s < Used(g)'
        PROVE  /\ g \in inode_bmap /\ g # f /\ s < Used(g)
               /\ inode_tab'[g].blocks[s] = inode_tab[g].blocks[s]
    <3>1. g \in inode_bmap /\ g \in Inodes /\ s \in Nat
        BY <1>1, <1>2 DEF TypeOK, Slots
    <3>2. g # f
        BY <1>5, <2>1, <3>1
    <3>3. QED
        BY <1>4, <1>5, <2>1, <3>1, <3>2
  <2>2. ASSUME NEW g \in inode_bmap, NEW s \in Slots, g # f, s < Used(g)
        PROVE  inode_tab[g].blocks[s] \in blk_bmap' \ Meta
    <3>1. inode_tab[g].blocks[s] \in blk_bmap \ Meta
        BY <1>1, <2>2 DEF OwnedInv
    <3>2. inode_tab[g].blocks[s] \notin old
        BY <1>1, <1>6, <2>2 DEF OwnedInv
    <3>3. QED
        BY <1>2, <3>1, <3>2
  <2>3. \A g \in inode_bmap', s \in Slots :
            s < Used(g)' => inode_tab'[g].blocks[s] \in blk_bmap' \ Meta
      BY <2>1, <2>2
  <2>4. ASSUME NEW g \in inode_bmap', NEW h \in inode_bmap', NEW r \in Slots, NEW s \in Slots,
               r < Used(g)', s < Used(h)', inode_tab'[g].blocks[r] = inode_tab'[h].blocks[s]
        PROVE  g = h /\ r = s
      BY <1>1, <2>1, <2>4 DEF OwnedInv
  <2>5. QED
      BY <2>3, <2>4 DEF OwnedInv
<1>10. \A g \in Inodes \ {f}, pos \in Nat :
        CellIn(inode_tab, g, pos)' = CellIn(inode_tab, g, pos)
    BY <1>2, <1>4 DEF CellIn
<1>11. NamesInv'
    BY <1>1, <1>2, <1>4, <1>10, NamesKept DEF Holds, InodeAt
<1>12. ImageInv'
  <2>1. image[2] \subseteq Inodes /\ ImageCurrent
      BY <1>1 DEF ImageInv
  <2>2. SUFFICES ASSUME NEW g \in image[2], image[3][g].type = "file", inode_tab'[g].size # 0
                 PROVE  Read(image[3], g, 0, image[3][g].size)'
                        = Read(inode_tab, g, 0, inode_tab[g].size)'
      BY <1>2, <2>1 DEF ImageInv, ImageCurrent
  <2>3. g \in Inodes /\ g # f /\ inode_tab'[g] = inode_tab[g]
      BY <1>4, <2>1, <2>2
  <2>4. Read(image[3], g, 0, image[3][g].size)' = Read(image[3], g, 0, image[3][g].size)
      BY <1>2 DEF Read, CellIn
  <2>5. Read(inode_tab, g, 0, inode_tab[g].size)' = Read(inode_tab, g, 0, inode_tab[g].size)
      BY <1>1, <1>10, <2>3, ReadSame
  <2>6. QED
      BY <2>1, <2>2, <2>3, <2>4, <2>5 DEF ImageCurrent
<1>13. Emptied(f)
  <2>1. SameIn(inode_bmap \ {f})
      BY <1>1, <1>4, <1>10 DEF SameIn, TypeOK
  <2>2. QED
      BY <1>1, <1>2, <1>4, <2>1 DEF Emptied
<1>14. QED
    BY <1>7, <1>8, <1>9, <1>11, <1>12, <1>13 DEF IInv

(* Where a write goes, and what of the inode it needs for that. *)
LEMMA WriteSize ==
    ASSUME TypeOK, NEW f \in Inodes, NEW start \in Nat, NEW count \in Nat,
           NEW offset, offset = StartAt(f, start), FitsInode(f, offset, count)
    PROVE  /\ offset \in Nat /\ Required(f, offset, count) \in Nat
           /\ NewSize(f, offset, count) \in Nat
           /\ NewSize(f, offset, count) \in 0 .. INODE_NUM_BLKS * BLOCK_SIZE
           /\ OffsetToBlocks(NewSize(f, offset, count))
              = Used(f) + Required(f, offset, count)
           /\ OffsetToBlocks(offset + count) <= Used(f) + Required(f, offset, count)
           /\ Used(f) + Required(f, offset, count) <= INODE_NUM_BLKS
<1>1. /\ inode_tab[f].size \in Nat /\ Used(f) \in Nat /\ INODE_NUM_BLKS \in Nat
    BY RecordType, UsedSlots
<1>2. offset \in Nat /\ offset + count \in Nat
    BY <1>1 DEF StartAt, Least
<1>3. OffsetToBlocks(offset + count) \in Nat
    BY <1>2, Pages
<1>4. /\ Required(f, offset, count) \in Nat
      /\ Used(f) + Required(f, offset, count) = Most(OffsetToBlocks(offset + count), Used(f))
      /\ OffsetToBlocks(offset + count) <= Used(f) + Required(f, offset, count)
    BY <1>1, <1>3 DEF Required, Most
<1>5. Used(f) + Required(f, offset, count) <= INODE_NUM_BLKS
    BY <1>1, <1>4 DEF FitsInode
<1>6. NewSize(f, offset, count) \in Nat
    BY <1>1, <1>2 DEF NewSize, Most
<1>7. OffsetToBlocks(NewSize(f, offset, count))
      = Most(OffsetToBlocks(offset + count), Used(f))
  <2>1. offset + count <= inode_tab[f].size => OffsetToBlocks(offset + count) <= Used(f)
      BY <1>1, <1>2, PagesGrow DEF Used
  <2>2. inode_tab[f].size <= offset + count => Used(f) <= OffsetToBlocks(offset + count)
      BY <1>1, <1>2, PagesGrow DEF Used
  <2>3. CASE offset + count >= inode_tab[f].size
    <3>1. NewSize(f, offset, count) = offset + count
        BY <2>3 DEF NewSize, Most
    <3>2. OffsetToBlocks(offset + count) >= Used(f)
        BY <1>1, <1>2, <1>3, <2>2, <2>3
    <3>3. QED
        BY <3>1, <3>2 DEF Most
  <2>4. CASE ~(offset + count >= inode_tab[f].size)
    <3>1. NewSize(f, offset, count) = inode_tab[f].size
        BY <2>4 DEF NewSize, Most
    <3>2. OffsetToBlocks(offset + count) <= Used(f)
        BY <1>1, <1>2, <2>1, <2>4
    <3>3. OffsetToBlocks(NewSize(f, offset, count)) = Used(f)
        BY <3>1 DEF Used
    <3>4. QED
        BY <1>1, <1>3, <3>2, <3>3 DEF Most
  <2>5. QED
      BY <2>3, <2>4
<1>8. NewSize(f, offset, count) \in 0 .. INODE_NUM_BLKS * BLOCK_SIZE
  <2>1. OffsetToBlocks(NewSize(f, offset, count)) <= INODE_NUM_BLKS
      BY <1>4, <1>5, <1>7
  <2>2. QED
      BY <1>6, <2>1, Fits
<1>9. QED
    BY <1>2, <1>4, <1>5, <1>6, <1>7, <1>8

(* The data are in f from offset on, and nothing else that a file or a directory holds has
   changed. *)
Written(f, offset, data) ==
    /\ inode_bmap' = inode_bmap
    /\ \A g \in Inodes : /\ inode_tab'[g].type = inode_tab[g].type
                         /\ g # f => inode_tab'[g].size = inode_tab[g].size
    /\ inode_tab'[f].size = Most(offset + Len(data), inode_tab[f].size)
    /\ \A g \in inode_bmap \ {f}, pos \in Nat : pos < inode_tab[g].size =>
          CellIn(inode_tab, g, pos)' = CellIn(inode_tab, g, pos)
    /\ \A pos \in Nat : pos < inode_tab'[f].size =>
          CellIn(inode_tab, f, pos)' = IF offset <= pos /\ pos < offset + Len(data)
                                       THEN data[pos - offset + 1] ELSE CellIn(inode_tab, f, pos)

(* The new blocks were free. *)
LEMMA WriteKeeps ==
    ASSUME IInv, NEW f \in Inodes, NEW start \in Nat, NEW data \in Seq(Data),
           Write(f, start, data), NEW offset, offset = StartAt(f, start)
    PROVE  IInv' /\ Written(f, offset, data)
<1>a. offset = StartAt(f, start)
    OBVIOUS
<1>b. PICK count : count = Len(data)
    OBVIOUS
<1>c. PICK need : need = Required(f, offset, count)
    OBVIOUS
<1>d. PICK tab : tab = Reserved(f, need)
    OBVIOUS
<1>e. PICK new : new = {tab[f].blocks[s] : s \in Used(f) .. Used(f) + need - 1}
    OBVIOUS
<1> DEFINE at(b, c) == {k \in 1 .. count : /\ tab[f].blocks[(offset + k - 1) \div BLOCK_SIZE] = b
                                           /\ (offset + k - 1) % BLOCK_SIZE = c}
<1>1. /\ TypeOK /\ BitmapsInv /\ OwnedInv /\ NamesInv
      /\ f \in inode_bmap /\ inode_tab[f].type = "file"
      /\ Used(f) \in Nat /\ INODE_NUM_BLKS \in Nat /\ count \in Nat
    BY <1>b, UsedSlots DEF IInv, Write, IsFile
<1>2. /\ FitsInode(f, offset, count) /\ need <= Cardinality(Blocks \ blk_bmap)
      /\ blk_bmap' = blk_bmap \cup new
      /\ inode_tab' = [tab EXCEPT ![f].size = NewSize(f, offset, count)]
      /\ disk' = [b \in Blocks \ Meta |-> [c \in Cells |->
              IF at(b, c) # {} THEN data[CHOOSE k \in at(b, c) : TRUE]
              ELSE IF b \in new THEN Junk ELSE disk[b][c]]]
      /\ inode_bmap' = inode_bmap /\ image' = meta'
    BY <1>a, <1>b, <1>c, <1>d, <1>e DEF Write, StoreFsData
<1>3. /\ offset \in Nat /\ need \in Nat
      /\ NewSize(f, offset, count) \in Nat
      /\ NewSize(f, offset, count) \in 0 .. INODE_NUM_BLKS * BLOCK_SIZE
      /\ OffsetToBlocks(NewSize(f, offset, count)) = Used(f) + need
      /\ OffsetToBlocks(offset + count) <= Used(f) + need
      /\ Used(f) + need <= INODE_NUM_BLKS
    BY <1>1, <1>2, <1>a, <1>c, WriteSize
<1> HIDE DEF at
<1>4. Grown(f, need, tab)
  <2>1. /\ TypeOK /\ need \in Nat /\ need <= Cardinality(Blocks \ blk_bmap)
        /\ Used(f) + need <= INODE_NUM_BLKS
      BY <1>1, <1>2, <1>3
  <2>2. QED
      BY <2>1, <1>d, NewBlocks
<1>5. /\ inode_tab' \in [Inodes -> InodeRecords]
      /\ \A g \in Inodes \ {f} : inode_tab'[g] = inode_tab[g]
      /\ inode_tab'[f].type = "file" /\ inode_tab'[f].size = NewSize(f, offset, count)
      /\ inode_tab'[f].blocks = tab[f].blocks
    BY <1>1, <1>2, <1>3, <1>4 DEF InodeRecords, Grown
<1>6. Used(f)' = Used(f) + need /\ \A g \in Inodes \ {f} : Used(g)' = Used(g)
    BY <1>3, <1>5 DEF Used
<1>7. /\ \A s \in Slots : ~(s < Used(f)) /\ s < Used(f) + need => tab[f].blocks[s] \in new
      /\ \A b \in new : b \in Blocks \ blk_bmap
  <2>1. \A s \in Used(f) .. Used(f) + need - 1 :
            s \in Slots /\ ~(s < Used(f)) /\ s < Used(f) + need
      BY <1>1, <1>3 DEF Slots
  <2>2. \A s \in Slots : ~(s < Used(f)) /\ s < Used(f) + need =>
            s \in Used(f) .. Used(f) + need - 1
      BY <1>1, <1>3 DEF Slots
  <2>3. \A b \in new : \E s \in Used(f) .. Used(f) + need - 1 : b = tab[f].blocks[s]
      BY <1>e
  <2>4. \A s \in Used(f) .. Used(f) + need - 1 : tab[f].blocks[s] \in new
      BY <1>e
  <2>5. QED
      BY <1>4, <2>1, <2>2, <2>3, <2>4 DEF Grown
<1>8. TypeOK'
  <2>1. \A b \in Blocks \ Meta, c \in Cells : at(b, c) # {} =>
            data[CHOOSE k \in at(b, c) : TRUE] \in Data
    <3>1. SUFFICES ASSUME NEW b \in Blocks \ Meta, NEW c \in Cells, at(b, c) # {}
                   PROVE  data[CHOOSE k \in at(b, c) : TRUE] \in Data
        OBVIOUS
    <3>2. (CHOOSE k \in at(b, c) : TRUE) \in at(b, c)
        BY <3>1
    <3>3. (CHOOSE k \in at(b, c) : TRUE) \in 1 .. count
        BY <3>2 DEF at
    <3>4. QED
        BY <1>b, <3>3
  <2>2. disk' \in [Blocks \ Meta -> [Cells -> Entries \cup Data \cup {Junk}]]
      BY <1>1, <1>2, <2>1 DEF TypeOK
  <2>3. QED
      BY <1>1, <1>2, <1>5, <1>7, <2>2 DEF TypeOK
<1>9. BitmapsInv'
    BY <1>1, <1>2, <1>5 DEF BitmapsInv
<1>10. OwnedInv'
  <2>1. ASSUME NEW g \in inode_bmap', NEW s \in Slots, s < Used(g)'
        PROVE  /\ g \in inode_bmap
               /\ \/ /\ s < Used(g)
                     /\ inode_tab'[g].blocks[s] = inode_tab[g].blocks[s]
                  \/ /\ g = f /\ ~(s < Used(f)) /\ s < Used(f) + need
                     /\ inode_tab'[g].blocks[s] = tab[f].blocks[s]
    <3>1. g \in inode_bmap /\ g \in Inodes
        BY <1>1, <1>2 DEF TypeOK
    <3>2. CASE g = f
        BY <1>4, <1>5, <1>6, <2>1, <3>1, <3>2 DEF Grown
    <3>3. CASE g # f
        BY <1>5, <1>6, <2>1, <3>1, <3>3
    <3>4. QED
        BY <3>2, <3>3
  <2>2. ASSUME NEW g \in inode_bmap, NEW s \in Slots, s < Used(g)
        PROVE  inode_tab[g].blocks[s] \in blk_bmap \ Meta
      BY <1>1, <2>2 DEF OwnedInv
  <2>3. Meta \subseteq blk_bmap
      BY <1>1 DEF BitmapsInv
  <2>4. ASSUME NEW g \in inode_bmap', NEW s \in Slots, s < Used(g)'
        PROVE  inode_tab'[g].blocks[s] \in blk_bmap' \ Meta
    <3>1. CASE s < Used(g) /\ inode_tab'[g].blocks[s] = inode_tab[g].blocks[s]
        BY <1>2, <2>1, <2>2, <2>4, <3>1
    <3>2. CASE /\ ~(s < Used(f)) /\ s < Used(f) + need
               /\ inode_tab'[g].blocks[s] = tab[f].blocks[s]
        BY <1>2, <1>7, <2>3, <3>2
    <3>3. QED
        BY <2>1, <2>4, <3>1, <3>2
  <2>5. ASSUME NEW g \in inode_bmap', NEW h \in inode_bmap', NEW r \in Slots, NEW s \in Slots,
               r < Used(g)', s < Used(h)', inode_tab'[g].blocks[r] = inode_tab'[h].blocks[s]
        PROVE  g = h /\ r = s
    <3>1. g \in inode_bmap /\ h \in inode_bmap
        BY <2>1, <2>5
    <3>2. CASE r < Used(g) /\ inode_tab'[g].blocks[r] = inode_tab[g].blocks[r]
      <4>1. CASE s < Used(h) /\ inode_tab'[h].blocks[s] = inode_tab[h].blocks[s]
          BY <1>1, <2>5, <3>1, <3>2, <4>1 DEF OwnedInv
      <4>2. CASE /\ ~(s < Used(f)) /\ s < Used(f) + need
                 /\ inode_tab'[h].blocks[s] = tab[f].blocks[s]
          BY <1>4, <2>2, <2>5, <3>1, <3>2, <4>2 DEF Grown
      <4>3. QED
          BY <2>1, <2>5, <4>1, <4>2
    <3>3. CASE /\ g = f /\ ~(r < Used(f)) /\ r < Used(f) + need
               /\ inode_tab'[g].blocks[r] = tab[f].blocks[r]
      <4>1. CASE s < Used(h) /\ inode_tab'[h].blocks[s] = inode_tab[h].blocks[s]
          BY <1>4, <2>2, <2>5, <3>1, <3>3, <4>1 DEF Grown
      <4>2. CASE /\ h = f /\ ~(s < Used(f)) /\ s < Used(f) + need
                 /\ inode_tab'[h].blocks[s] = tab[f].blocks[s]
          BY <1>4, <2>5, <3>3, <4>2 DEF Grown
      <4>3. QED
          BY <2>1, <2>5, <4>1, <4>2
    <3>4. QED
        BY <2>1, <2>5, <3>2, <3>3
  <2>6. QED
      BY <2>4, <2>5 DEF OwnedInv
<1>11. ASSUME NEW k \in 1 .. count, NEW q, q = (offset + k - 1) \div BLOCK_SIZE
       PROVE  q \in Slots /\ q < Used(f) + need
  <2>1. offset + k - 1 \in Nat /\ offset + count \in Nat /\ offset + k - 1 < offset + count
      BY <1>1, <1>3
  <2>2. q \in Nat /\ q < OffsetToBlocks(offset + count)
      BY <1>11, <2>1, InPage
  <2>3. OffsetToBlocks(offset + count) \in Nat
      BY <2>1, Pages
  <2>4. QED
      BY <1>1, <1>3, <2>2, <2>3 DEF Slots
<1>12. \A g \in inode_bmap \ {f}, pos \in Nat : pos < inode_tab[g].size =>
        CellIn(inode_tab, g, pos)' = CellIn(inode_tab, g, pos)
  <2>1. SUFFICES ASSUME NEW g \in inode_bmap, g # f, NEW pos \in Nat, pos < inode_tab[g].size
                 PROVE  CellIn(inode_tab, g, pos)' = CellIn(inode_tab, g, pos)
      OBVIOUS
  <2> DEFINE page == pos \div BLOCK_SIZE
             c == pos % BLOCK_SIZE
             b == inode_tab[g].blocks[page]
  <2>2. /\ page \in Slots /\ page < Used(g) /\ c \in Cells
        /\ b \in Blocks \ Meta /\ b \in blk_bmap
      BY <2>1, CellBlock
  <2> HIDE DEF page, c
  <2>3. b \notin new
      BY <1>7, <2>2
  <2>4. at(b, c) = {}
    <3>1. SUFFICES ASSUME NEW k \in 1 .. count,
                          tab[f].blocks[(offset + k - 1) \div BLOCK_SIZE] = b
                   PROVE  FALSE
        BY DEF at
    <3>2. PICK q : q = (offset + k - 1) \div BLOCK_SIZE
        OBVIOUS
    <3>3. q \in Slots /\ q < Used(f) + need
        BY <1>11, <3>2
    <3>4. CASE q < Used(f)
      <4>1. inode_tab[f].blocks[q] = b
          BY <1>4, <3>1, <3>2, <3>3, <3>4 DEF Grown
      <4>2. QED
          BY <1>1, <2>1, <2>2, <3>3, <3>4, <4>1 DEF OwnedInv
    <3>5. CASE ~(q < Used(f))
      <4>1. tab[f].blocks[q] \notin blk_bmap
          BY <1>4, <3>3, <3>5 DEF Grown
      <4>2. QED
          BY <2>2, <3>1, <3>2, <4>1
    <3>6. QED
        BY <3>4, <3>5
  <2>5. disk'[b][c] = disk[b][c]
      BY <1>2, <2>2, <2>3, <2>4
  <2>6. inode_tab'[g].blocks[page] = b
      BY <1>1, <1>5, <2>1 DEF TypeOK
  <2>7. CellIn(inode_tab, g, pos) = disk[b][c] /\ CellIn(inode_tab, g, pos)' = disk'[b][c]
      BY <2>6 DEF CellIn, page, c
  <2>8. QED
      BY <2>5, <2>7
<1>13. \A pos \in Nat : pos < inode_tab'[f].size =>
        CellIn(inode_tab, f, pos)' = IF offset <= pos /\ pos < offset + count
                                     THEN data[pos - offset + 1] ELSE CellIn(inode_tab, f, pos)
  <2>1. SUFFICES ASSUME NEW pos \in Nat, pos < NewSize(f, offset, count)
                 PROVE  CellIn(inode_tab, f, pos)'
                        = IF offset <= pos /\ pos < offset + count
                          THEN data[pos - offset + 1] ELSE CellIn(inode_tab, f, pos)
      BY <1>5
  <2> DEFINE page == pos \div BLOCK_SIZE
             c == pos % BLOCK_SIZE
             b == tab[f].blocks[page]
  <2>2. page \in Slots /\ page < Used(f) + need /\ c \in Cells
    <3>1. page \in Nat /\ page < OffsetToBlocks(NewSize(f, offset, count)) /\ c \in Cells
        BY <1>3, <2>1, InPage
    <3>2. QED
        BY <1>1, <1>3, <3>1 DEF Slots
  <2>3. b \in Blocks \ Meta
    <3>1. f \in inode_bmap' /\ page < Used(f)' /\ inode_tab'[f].blocks[page] = b
        BY <1>1, <1>2, <1>5, <1>6, <2>2
    <3>2. b \in blk_bmap' \ Meta
        BY <1>10, <2>2, <3>1 DEF OwnedInv
    <3>3. QED
        BY <1>8, <3>2 DEF TypeOK
  <2>4. pos = BLOCK_SIZE * page + c
      BY FSAssumption, Division
  <2>5. CellIn(inode_tab, f, pos)' = disk'[b][c]
      BY <1>5 DEF CellIn
  <2> HIDE DEF page, c
  <2>6. \A k \in at(b, c) : offset + k - 1 = pos
    <3>1. SUFFICES ASSUME NEW k \in 1 .. count,
                          tab[f].blocks[(offset + k - 1) \div BLOCK_SIZE] = b,
                          (offset + k - 1) % BLOCK_SIZE = c
                   PROVE  offset + k - 1 = pos
        BY DEF at
    <3>2. PICK q : q = (offset + k - 1) \div BLOCK_SIZE
        OBVIOUS
    <3>3. q \in Slots /\ q < Used(f) + need
        BY <1>11, <3>2
    <3>4. f \in inode_bmap' /\ q < Used(f)' /\ page < Used(f)'
          /\ inode_tab'[f].blocks[q] = inode_tab'[f].blocks[page]
        BY <1>1, <1>2, <1>5, <1>6, <2>2, <3>1, <3>2, <3>3
    <3>5. q = page
        BY <1>10, <2>2, <3>3, <3>4 DEF OwnedInv
    <3>6. offset + k - 1 \in Nat
        BY <1>1, <1>3
    <3>7. offset + k - 1 = BLOCK_SIZE * q + c
        BY <3>1, <3>2, <3>6, FSAssumption, Division
    <3>8. QED
        BY <2>4, <3>5, <3>7
  <2>7. CASE offset <= pos /\ pos < offset + count
    <3>1. PICK k : k = pos - offset + 1
        OBVIOUS
    <3>2. k \in 1 .. count /\ offset + k - 1 = pos
        BY <1>1, <1>3, <2>7, <3>1
    <3>3. k \in at(b, c)
        BY <3>2 DEF at, page, c
    <3>4. (CHOOSE j \in at(b, c) : TRUE) \in at(b, c)
        BY <3>3
    <3>5. \A j \in at(b, c) : j = k
      <4>1. \A j \in at(b, c) : j \in Int /\ offset + j - 1 = pos
          BY <2>6 DEF at
      <4>2. QED
          BY <1>3, <3>2, <4>1
    <3>6. (CHOOSE j \in at(b, c) : TRUE) = k
        BY <3>4, <3>5
    <3>7. disk'[b][c] = data[k]
        BY <1>2, <2>2, <2>3, <3>3, <3>6
    <3>8. QED
        BY <2>5, <2>7, <3>1, <3>7
  <2>8. CASE ~(offset <= pos /\ pos < offset + count)
    <3>1. at(b, c) = {}
      <4>1. \A k \in at(b, c) : k \in 1 .. count /\ offset + k - 1 = pos
          BY <2>6 DEF at
      <4>2. QED
          BY <1>1, <1>3, <2>8, <4>1
    <3>2. pos < inode_tab[f].size
      <4>1. inode_tab[f].size \in Nat /\ offset <= inode_tab[f].size
          BY <1>1, <1>3, <1>a, RecordType DEF StartAt, Least
      <4>2. QED
          BY <1>1, <1>3, <2>1, <2>8, <4>1 DEF NewSize, Most
    <3>3. page < Used(f) /\ inode_tab[f].blocks[page] \in blk_bmap
        BY <1>1, <3>2, CellBlock DEF page
    <3>4. inode_tab[f].blocks[page] = b
        BY <1>4, <2>2, <3>3 DEF Grown
    <3>5. b \notin new
        BY <1>7, <3>3, <3>4
    <3>6. disk'[b][c] = disk[b][c]
        BY <1>2, <2>2, <2>3, <3>1, <3>5
    <3>7. CellIn(inode_tab, f, pos) = disk[b][c]
        BY <3>4 DEF CellIn, page, c
    <3>8. QED
        BY <2>5, <2>8, <3>6, <3>7
  <2>9. QED
      BY <2>7, <2>8
<1>14. Written(f, offset, data)
  <2>1. \A g \in Inodes : /\ inode_tab'[g].type = inode_tab[g].type
                          /\ g # f => inode_tab'[g].size = inode_tab[g].size
      BY <1>1, <1>5
  <2>2. inode_tab'[f].size = Most(offset + Len(data), inode_tab[f].size)
      BY <1>5, <1>b DEF NewSize
  <2>3. QED
      BY <1>2, <1>12, <1>13, <1>b, <2>1, <2>2 DEF Written
<1>15. NamesInv'
  <2>1. \A d \in Inodes, pos \in Nat : Holds(d, pos) => InodeAt(d, pos)' = InodeAt(d, pos)
      BY <1>1, <1>12 DEF InodeAt, Holds
  <2>2. \A d \in Inodes : /\ inode_tab'[d].type = inode_tab[d].type
                          /\ inode_tab[d].type = "dir" => inode_tab'[d].size = inode_tab[d].size
      BY <1>1, <1>5
  <2>3. QED
      BY <1>1, <1>2, <2>1, <2>2, NamesKept
<1>16. ImageInv'
    BY <1>2, <1>8, StoredIsCurrent
<1>17. QED
    BY <1>8, <1>9, <1>10, <1>14, <1>15, <1>16 DEF IInv

-----------------------------------------------------------------------------
(* The theorems *)

LEMMA InitHolds == Init => IInv
<1>1. SUFFICES ASSUME Init
               PROVE  IInv
    OBVIOUS
<1>2. /\ blk_bmap = Meta /\ inode_bmap = {NoInode, Root} /\ image = meta
      /\ inode_tab = [f \in Inodes |-> NewInode(IF f = Root THEN "dir" ELSE "none")]
      /\ disk = [b \in Blocks \ Meta |-> [c \in Cells |-> Junk]]
    BY <1>1 DEF Init
<1>3. \A type \in {"none", "dir"} : NewInode(type) \in InodeRecords /\ NewInode(type).size = 0
  <2>1. INODE_NUM_BLKS \in Nat /\ BLOCK_SIZE \in Nat /\ 0 \in Blocks
      BY FSAssumption DEF Blocks
  <2>2. 0 \in 0 .. INODE_NUM_BLKS * BLOCK_SIZE
      BY <2>1
  <2>3. QED
      BY <2>1, <2>2 DEF NewInode, InodeRecords
<1>4. /\ inode_tab \in [Inodes -> InodeRecords]
      /\ \A f \in Inodes : inode_tab[f].size = 0
      /\ \A f \in Inodes \ inode_bmap : inode_tab[f].type = "none"
    BY <1>2, <1>3 DEF NewInode
<1>5. \A f \in Inodes : Used(f) = 0
  <2>1. OffsetToBlocks(0) \in Nat /\ ~(0 < OffsetToBlocks(0))
      BY Pages, FSAssumption
  <2>2. OffsetToBlocks(0) = 0
      BY <2>1
  <2>3. QED
      BY <1>4, <2>2 DEF Used
<1>6. TypeOK
    BY <1>2, <1>4, BlockNumbers DEF TypeOK
<1>7. BitmapsInv
    BY <1>2, <1>4 DEF BitmapsInv
<1>8. OwnedInv
  <2>1. \A f \in inode_bmap, s \in Slots : ~(s < Used(f))
      BY <1>5, <1>6 DEF Slots, TypeOK
  <2>2. QED
      BY <2>1 DEF OwnedInv
<1>9. NamesInv
  <2>1. \A d \in Inodes, pos \in Nat : ~Holds(d, pos)
      BY <1>4 DEF Holds
  <2>2. Named = {}
      BY <1>2 DEF Named
  <2>3. QED
      BY <2>1, <2>2 DEF NamesInv
<1>10. ImageInv
  <2>1. image[2] = inode_bmap /\ image[3] = inode_tab
      BY <1>2 DEF meta
  <2>2. QED
      BY <1>6, <2>1 DEF ImageInv, ImageCurrent, TypeOK
<1>11. QED
    BY <1>6, <1>7, <1>8, <1>9, <1>10 DEF IInv

LEMMA StepKeeps == IInv /\ [Next]_vars => IInv'
<1>1. SUFFICES ASSUME IInv, [Next]_vars
               PROVE  IInv'
    OBVIOUS
<1>2. CASE Refused \/ UNCHANGED vars
    BY <1>1, <1>2, RefusedKeeps
<1>3. CASE \E dir \in Inodes, name \in Names : KernelCreates(dir, name) \/ Mkdir(dir, name)
  <2>1. PICK dir \in Inodes, name \in Names : KernelCreates(dir, name) \/ Mkdir(dir, name)
      BY <1>3
  <2>2. IsDirectory(dir) /\ \E type \in {"dir", "file"} : AddEntry(dir, name, type)
      BY <2>1 DEF KernelCreates, Create, Mkdir
  <2>3. PICK type \in {"dir", "file"} : AddEntry(dir, name, type)
      BY <2>2
  <2>4. QED
      BY <1>1, <2>2, <2>3, AddKeeps
<1>4. CASE \E f \in Inodes, count \in 0 .. MaxCount :
              \E start \in 0 .. inode_tab[f].size + 1 :
                 \/ WriteFails(f, start, count)
                 \/ \E data \in [1 .. count -> Data] : Write(f, start, data)
  <2>1. PICK f \in Inodes, count \in 0 .. MaxCount :
              \E start \in 0 .. inode_tab[f].size + 1 :
                 \/ WriteFails(f, start, count)
                 \/ \E data \in [1 .. count -> Data] : Write(f, start, data)
      BY <1>4
  <2>2. inode_tab[f].size \in Nat /\ count \in Nat
      BY <1>1, RecordType, FSAssumption DEF IInv
  <2>3. PICK start \in Nat : \/ WriteFails(f, start, count)
                             \/ \E data \in [1 .. count -> Data] : Write(f, start, data)
      BY <2>1, <2>2
  <2>4. CASE WriteFails(f, start, count)
      BY <1>1, <2>2, <2>4, WriteFailsKeeps
  <2>5. CASE \E data \in [1 .. count -> Data] : Write(f, start, data)
    <3>1. PICK data \in [1 .. count -> Data] : Write(f, start, data)
        BY <2>5
    <3>2. data \in Seq(Data)
        BY <2>2
    <3>3. QED
        BY <1>1, <3>1, <3>2, WriteKeeps
  <2>6. QED
      BY <2>3, <2>4, <2>5
<1>5. CASE \E f \in Inodes : Truncate(f)
    BY <1>1, <1>5, TruncateKeeps
<1>6. QED
    BY <1>1, <1>2, <1>3, <1>4, <1>5 DEF Next

(* In every state the bitmaps, the inodes, the directories and the metadata on disk agree
   (src/sofs/fs.c 402-433, 491-691). *)
THEOREM Invariance == Spec => []IInv
BY InitHolds, StepKeeps, PTL DEF Spec

(* The bitmaps and the inodes keep their shapes, and every cell of the disk holds a
   directory entry, data or junk. *)
THEOREM TypeCorrect == Spec => []TypeOK
<1>1. IInv => TypeOK
    BY DEF IInv
<1>2. QED
    BY <1>1, Invariance, PTL

(* No block belongs to two files, or twice to one, nor to the metadata, and none is free
   while it belongs to a file (fs_write, fs_create, fs_mkdir, fs_truncate). *)
THEOREM OwnedOnceCorrect == Spec => []OwnedOnce
<1>1. IInv => OwnedOnce
  <2>1. SUFFICES ASSUME IInv
                 PROVE  OwnedOnce
      OBVIOUS
  <2>2. OwnedInv
      BY <2>1 DEF IInv
  <2>3. \A x \in BlockSlots : /\ x[1] \in inode_bmap /\ x[2] \in Slots /\ x[2] < Used(x[1])
                               /\ x = <<x[1], x[2]>>
      BY DEF BlockSlots
  <2>4. \A x \in BlockSlots : inode_tab[x[1]].blocks[x[2]] \in blk_bmap \ Meta
      BY <2>2, <2>3 DEF OwnedInv
  <2>5. \A x, y \in BlockSlots :
            inode_tab[x[1]].blocks[x[2]] = inode_tab[y[1]].blocks[y[2]] => x = y
      BY <2>2, <2>3 DEF OwnedInv
  <2>6. QED
      BY <2>4, <2>5 DEF OwnedOnce
<1>2. QED
    BY <1>1, Invariance, PTL

(* Directory entries and inodes other than the root correspond to each other, whatever
   page of the directory they are in (fs_create, fs_mkdir). *)
THEOREM OneNameCorrect == Spec => []OneName
<1>1. IInv => OneName
  <2>1. SUFFICES ASSUME IInv
                 PROVE  OneName
      OBVIOUS
  <2>2. NamesInv /\ TypeOK
      BY <2>1 DEF IInv
  <2>3. \A x \in Positions("dir") : /\ x[1] \in Inodes /\ x[2] \in Nat /\ Holds(x[1], x[2])
                                     /\ x = <<x[1], x[2]>>
      BY FSAssumption DEF Positions, Holds
  <2>4. \A d \in Inodes, pos \in Nat : Holds(d, pos) => <<d, pos>> \in Positions("dir")
    <3>1. SUFFICES ASSUME NEW d \in Inodes, NEW pos \in Nat, Holds(d, pos)
                   PROVE  <<d, pos>> \in Positions("dir")
        OBVIOUS
    <3>2. pos \in 0 .. INODE_NUM_BLKS * BLOCK_SIZE - 1
      <4>1. INODE_NUM_BLKS * BLOCK_SIZE \in Int
          BY FSAssumption
      <4>2. inode_tab[d].size \in Nat /\ inode_tab[d].size <= INODE_NUM_BLKS * BLOCK_SIZE
          BY <2>2, <4>1, RecordType
      <4>3. QED
          BY <3>1, <4>1, <4>2 DEF Holds
    <3>3. QED
        BY <3>1, <3>2 DEF Positions, Holds
  <2>5. \A x \in Positions("dir") : InodeAt(x[1], x[2]) \in Named
      BY <2>2, <2>3 DEF NamesInv
  <2>6. \A f \in Named : \E x \in Positions("dir") : InodeAt(x[1], x[2]) = f
    <3>1. SUFFICES ASSUME NEW f \in Named
                   PROVE  \E x \in Positions("dir") : InodeAt(x[1], x[2]) = f
        OBVIOUS
    <3>2. PICK d \in Inodes, pos \in Nat : Holds(d, pos) /\ InodeAt(d, pos) = f
        BY <2>2 DEF NamesInv
    <3>3. <<d, pos>> \in Positions("dir")
        BY <2>4, <3>2
    <3>4. QED
        BY <3>2, <3>3
  <2>7. {InodeAt(x[1], x[2]) : x \in Positions("dir")} = Named
      BY <2>5, <2>6
  <2>8. \A x, y \in Positions("dir") : InodeAt(x[1], x[2]) = InodeAt(y[1], y[2]) => x = y
      BY <2>2, <2>3 DEF NamesInv
  <2>9. QED
      BY <2>7, <2>8 DEF OneName, InodeAt, Named
<1>2. QED
    BY <1>1, Invariance, PTL

(* What the metadata on disk say of a file is what is read of it, or the file has been
   truncated since (fsi_store_fsdata, and its absence from fs_truncate). *)
THEOREM ImageCurrentCorrect == Spec => []ImageCurrent
<1>1. IInv => ImageCurrent
    BY DEF IInv, ImageInv
<1>2. QED
    BY <1>1, Invariance, PTL


-----------------------------------------------------------------------------
(* What fs_lookup computes *)

LEMMA SetInduction ==
    ASSUME NEW S, 0 \in S, \A n \in Nat : n \in S => n + 1 \in S
    PROVE  \A n \in Nat : n \in S
<1> SUFFICES ASSUME NEW m \in Nat, m \notin S
             PROVE  FALSE
    OBVIOUS
<1> DEFINE P == (0 .. m) \ S
<1>1. P \subseteq Int /\ IsFiniteSet(P) /\ P # {}
  <2>1. 0 \in Int /\ m \in Int /\ m \in 0 .. m
      OBVIOUS
  <2>2. IsFiniteSet(0 .. m)
      BY <2>1, FS_Interval
  <2>3. IsFiniteSet(P)
      BY <2>2, FS_Difference
  <2>4. P \subseteq Int /\ P # {}
      BY <2>1
  <2>5. QED
      BY <2>3, <2>4
<1>2. \A k \in P : k \in Nat /\ k <= m /\ k \notin S
    OBVIOUS
<1>3. \A k \in Nat : k <= m /\ k \notin S => k \in P
    OBVIOUS
<1> HIDE DEF P
<1>4. Cardinality(P) \in Nat /\ 0 < Cardinality(P)
  <2>1. Cardinality(P) \in Nat /\ Cardinality(P) # 0
      BY <1>1, FS_CardinalityType, FS_EmptySet
  <2>2. QED
      BY <2>1
<1>5. PICK k \in P : Cardinality({c \in P : c < k}) = 0
    BY <1>1, <1>4, Ranks
<1>6. \A c \in P : ~(c < k)
  <2> DEFINE U == {c \in P : c < k}
  <2>1. U \subseteq P /\ Cardinality(U) = 0
      BY <1>5
  <2> HIDE DEF U
  <2>2. IsFiniteSet(U)
      BY <1>1, <2>1, FS_Subset
  <2>3. U = {}
      BY <2>1, <2>2, FS_EmptySet
  <2>4. QED
      BY <2>3 DEF U
<1>7. k # 0 /\ k \in Nat /\ k <= m /\ k \notin S
    BY <1>2
<1>8. k - 1 \in Nat /\ k - 1 <= m /\ k - 1 < k /\ (k - 1) + 1 = k
    BY <1>7
<1>9. k - 1 \in S
    BY <1>3, <1>6, <1>8
<1>10. QED
    BY <1>7, <1>8, <1>9

(* The value at k of the recursive function of fs_lookup *)
Step(path, at, k) ==
    IF k = 0 THEN Root
    ELSE IF at[k-1] \in inode_bmap /\ inode_tab[at[k-1]].type = "dir"
         THEN DirSearch(at[k-1], path[k]) ELSE NoInode

(* at is that function, as far as n *)
Walks(path, n, at) == at = [k \in 0 .. n |-> Step(path, at, k)]

LEMMA WalkExists ==
    ASSUME NEW path, NEW n \in Nat
    PROVE  \E at : Walks(path, n, at)
<1> DEFINE S == {m \in Nat : \E at : at = [k \in 0 .. m |-> Step(path, at, k)]}
<1>1. 0 \in S
  <2>1. PICK at : at = [k \in 0 .. 0 |-> Root]
      OBVIOUS
  <2>2. at = [k \in 0 .. 0 |-> Step(path, at, k)]
      BY <2>1 DEF Step
  <2>3. QED
      BY <2>2
<1>2. ASSUME NEW m \in Nat, m \in S
      PROVE  m + 1 \in S
  <2>1. PICK g : g = [k \in 0 .. m |-> Step(path, g, k)]
      BY <1>2
  <2>2. PICK h : h = [k \in 0 .. m + 1 |-> IF k <= m THEN g[k] ELSE Step(path, g, m + 1)]
      OBVIOUS
  <2>3. ASSUME NEW k \in 0 .. m + 1
        PROVE  h[k] = Step(path, h, k)
    <3>1. k # 0 => k - 1 \in 0 .. m /\ k - 1 \in 0 .. m + 1 /\ k - 1 <= m
        OBVIOUS
    <3>2. k # 0 => h[k - 1] = g[k - 1]
        BY <2>2, <3>1
    <3>3. Step(path, h, k) = Step(path, g, k)
        BY <3>2 DEF Step
    <3>4. CASE k <= m
      <4>1. k \in 0 .. m
          BY <3>4
      <4>2. h[k] = g[k] /\ g[k] = Step(path, g, k)
          BY <2>1, <2>2, <3>4, <4>1
      <4>3. QED
          BY <3>3, <4>2
    <3>5. CASE ~(k <= m)
      <4>1. k = m + 1
          BY <3>5
      <4>2. h[k] = Step(path, g, m + 1)
          BY <2>2, <3>5
      <4>3. QED
          BY <3>3, <4>1, <4>2
    <3>6. QED
        BY <3>4, <3>5
  <2>4. h = [k \in 0 .. m + 1 |-> Step(path, h, k)]
      BY <2>2, <2>3
  <2>5. QED
      BY <2>4
<1> HIDE DEF S
<1>3. n \in S
    BY <1>1, <1>2, SetInduction
<1>4. QED
    BY <1>3 DEF S, Walks

(* On a path and on one that goes on, it is the same as far as the first one goes. *)
LEMMA WalkSame ==
    ASSUME NEW p, NEW q, NEW m \in Nat, NEW n \in Nat, m <= n,
           \A k \in 1 .. m : p[k] = q[k],
           NEW g, Walks(p, m, g), NEW h, Walks(q, n, h)
    PROVE  g[m] = h[m]
<1> DEFINE S == {k \in Nat : k <= m => g[k] = h[k]}
<1>0. \A k \in Nat : k <= m => g[k] = Step(p, g, k) /\ h[k] = Step(q, h, k)
  <2>1. \A k \in Nat : k <= m => k \in 0 .. m /\ k \in 0 .. n
      OBVIOUS
  <2>2. QED
      BY <2>1 DEF Walks
<1>1. 0 \in S
    BY <1>0 DEF Step
<1>2. ASSUME NEW k \in Nat, k \in S
      PROVE  k + 1 \in S
  <2>1. SUFFICES ASSUME k + 1 <= m
                 PROVE  g[k + 1] = h[k + 1]
      OBVIOUS
  <2>2. k + 1 \in Nat /\ k + 1 # 0 /\ (k + 1) - 1 = k /\ k + 1 \in 1 .. m /\ k <= m
      BY <2>1
  <2>3. g[k] = h[k] /\ p[k + 1] = q[k + 1]
      BY <1>2, <2>2
  <2>4. Step(p, g, k + 1) = Step(q, h, k + 1)
      BY <2>2, <2>3 DEF Step
  <2>5. QED
      BY <1>0, <2>1, <2>2, <2>4
<1> HIDE DEF S
<1>3. m \in S
    BY <1>1, <1>2, SetInduction
<1>4. QED
    BY <1>3 DEF S

(* The function that fs_lookup computes on a path *)
Walk(path) == CHOOSE at : Walks(path, Len(path), at)

LEMMA LookupWalks ==
    ASSUME NEW S, NEW p \in Seq(S)
    PROVE  Len(p) \in Nat /\ Walks(p, Len(p), Walk(p)) /\ Lookup(p) = Walk(p)[Len(p)]
<1>1. Len(p) \in Nat
    OBVIOUS
<1>2. Walks(p, Len(p), Walk(p))
    BY <1>1, WalkExists DEF Walk
<1>3. Lookup(p) = Walk(p)[Len(p)]
    BY DEF Lookup, Walk, Walks, Step
<1>4. QED
    BY <1>1, <1>2, <1>3

(* fs_lookup of no name, and of one more *)
LEMMA LookupRoot == Lookup(<< >>) = Root
<1>1. << >> \in Seq({}) /\ Len(<< >>) = 0
    OBVIOUS
<1>2. Walks(<< >>, 0, Walk(<< >>)) /\ Lookup(<< >>) = Walk(<< >>)[0]
    BY <1>1, LookupWalks
<1>3. Walk(<< >>)[0] = Step(<< >>, Walk(<< >>), 0)
    BY <1>2 DEF Walks
<1>4. QED
    BY <1>2, <1>3 DEF Step

LEMMA LookupAppend ==
    ASSUME NEW S, NEW p \in Seq(S), NEW name \in S
    PROVE  Lookup(Append(p, name)) = IF IsDirectory(Lookup(p)) THEN DirSearch(Lookup(p), name)
                                     ELSE NoInode
<1> DEFINE q == Append(p, name)
           n == Len(p)
<1>1. /\ q \in Seq(S) /\ Len(q) = n + 1 /\ n \in Nat /\ q[n + 1] = name
      /\ \A k \in 1 .. n : p[k] = q[k]
    OBVIOUS
<1> HIDE DEF q
<1>2. /\ Walks(p, n, Walk(p)) /\ Lookup(p) = Walk(p)[n]
      /\ Walks(q, n + 1, Walk(q)) /\ Lookup(q) = Walk(q)[n + 1]
    BY <1>1, LookupWalks
<1> HIDE DEF n
<1>3. /\ n + 1 \in Nat /\ n <= n + 1 /\ n + 1 # 0 /\ (n + 1) - 1 = n
      /\ n + 1 \in 0 .. n + 1
    BY <1>1
<1>4. Walk(p)[n] = Walk(q)[n]
    BY <1>1, <1>2, <1>3, WalkSame
<1>5. Walk(q)[n + 1] = Step(q, Walk(q), n + 1)
    BY <1>2, <1>3 DEF Walks
<1>6. Step(q, Walk(q), n + 1)
        = IF IsDirectory(Walk(q)[n]) THEN DirSearch(Walk(q)[n], name) ELSE NoInode
    BY <1>1, <1>3 DEF Step, IsDirectory
<1>7. QED
    BY <1>2, <1>4, <1>5, <1>6 DEF q

(* Both, in a form that can be said of the next state *)
LooksUp ==
    /\ Lookup(<< >>) = Root
    /\ \A S : \A p \in Seq(S), name \in S : \A d : d = Lookup(p) =>
          Lookup(Append(p, name)) = IF IsDirectory(d) THEN DirSearch(d, name) ELSE NoInode

LEMMA EachLookup == LooksUp
BY LookupRoot, LookupAppend DEF LooksUp

LEMMA EachLookupNext == LooksUp'
BY EachLookup, PTL

-----------------------------------------------------------------------------
(* The directory tree *)

NameAt(d, pos) == CellIn(inode_tab, d, pos).name

TreeInv ==
    /\ inode_tab[NoInode].type = "none" /\ inode_tab[Root].type = "dir"
    /\ \A d \in Inodes, pos \in Nat : Holds(d, pos) => NameAt(d, pos) \in Names
    /\ \A d \in Inodes, pos, p \in Nat :
          Holds(d, pos) /\ Holds(d, p) /\ NameAt(d, pos) = NameAt(d, p) => pos = p

(* Every inode with a name is found on a path, which is no longer than there are such
   inodes: directories make no circles. *)
ReachInv == \A f \in Named :
    \E p \in Seq(Names) : Len(p) <= Cardinality(Named) /\ Lookup(p) = f

(* What is known of a directory by its entries *)
SearchFinds ==
    /\ IsDirectory(Root) /\ ~IsDirectory(NoInode) /\ NoInode \in inode_bmap
    /\ \A d : IsDirectory(d) => d \in Inodes /\ inode_tab[d].size \in Nat
    /\ \A d : \A pos \in Nat : Holds(d, pos) =>
          IsDirectory(d) /\ NameAt(d, pos) \in Names /\ InodeAt(d, pos) \in Named
    /\ \A d, name : IsDirectory(d) =>
          /\ \A pos \in Nat : Holds(d, pos) /\ NameAt(d, pos) = name =>
                DirSearch(d, name) = InodeAt(d, pos)
          /\ DirSearch(d, name) # NoInode =>
                \E pos \in Nat : Holds(d, pos) /\ NameAt(d, pos) = name

LEMMA EachSearched == IInv /\ TreeInv => SearchFinds
<1> SUFFICES ASSUME IInv, TreeInv
             PROVE  SearchFinds
    OBVIOUS
<1>1. TypeOK /\ NamesInv /\ {NoInode, Root} \subseteq inode_bmap
    BY DEF IInv, BitmapsInv
<1>2. IsDirectory(Root) /\ ~IsDirectory(NoInode) /\ NoInode \in inode_bmap
    BY <1>1 DEF TreeInv, IsDirectory
<1>3. \A d : IsDirectory(d) => d \in Inodes /\ inode_tab[d].size \in Nat
    BY <1>1, RecordType DEF IsDirectory, TypeOK
<1>4. ASSUME NEW d, NEW pos \in Nat, Holds(d, pos)
      PROVE  IsDirectory(d) /\ NameAt(d, pos) \in Names /\ InodeAt(d, pos) \in Named
  <2>1. IsDirectory(d)
      BY <1>4 DEF Holds, IsDirectory
  <2>2. QED
      BY <1>1, <1>3, <1>4, <2>1 DEF TreeInv, NamesInv
<1>5. ASSUME NEW d, NEW name, IsDirectory(d)
      PROVE  /\ \A pos \in Nat : Holds(d, pos) /\ NameAt(d, pos) = name =>
                   DirSearch(d, name) = InodeAt(d, pos)
             /\ DirSearch(d, name) # NoInode =>
                   \E pos \in Nat : Holds(d, pos) /\ NameAt(d, pos) = name
  <2> DEFINE hits == {pos \in 0 .. inode_tab[d].size - 1 : NameAt(d, pos) = name}
  <2>1. d \in Inodes /\ inode_tab[d].size \in Nat
      BY <1>3, <1>5
  <2>2. DirSearch(d, name) = IF hits = {} THEN NoInode
          ELSE InodeAt(d, CHOOSE pos \in hits : \A p \in hits : pos <= p)
      BY DEF DirSearch, InodeAt, NameAt
  <2>3. \A pos : pos \in hits <=> pos \in Nat /\ Holds(d, pos) /\ NameAt(d, pos) = name
      BY <1>5, <2>1 DEF Holds, IsDirectory
  <2> HIDE DEF hits
  <2>4. ASSUME NEW pos \in Nat, Holds(d, pos), NameAt(d, pos) = name
        PROVE  DirSearch(d, name) = InodeAt(d, pos)
    <3>1. hits = {pos}
        BY <2>1, <2>3, <2>4 DEF TreeInv
    <3>2. (CHOOSE q \in hits : \A p \in hits : q <= p) = pos
        BY <2>4, <3>1
    <3>3. QED
        BY <2>2, <3>1, <3>2
  <2>5. hits # {} => \E pos \in Nat : Holds(d, pos) /\ NameAt(d, pos) = name
      BY <2>3
  <2>6. QED
      BY <2>2, <2>4, <2>5
<1>6. QED
    BY <1>2, <1>3, <1>4, <1>5 DEF SearchFinds

LEMMA EachSearchedNext == IInv' /\ TreeInv' => SearchFinds'
BY EachSearched, PTL

(* A path that is found ends in an entry. *)
LEMMA FoundAt ==
    ASSUME SearchFinds, NEW p \in Seq(Names), NEW name \in Names,
           Lookup(Append(p, name)) # NoInode
    PROVE  \E pos \in Nat : /\ Holds(Lookup(p), pos) /\ NameAt(Lookup(p), pos) = name
                            /\ Lookup(Append(p, name)) = InodeAt(Lookup(p), pos)
<1>1. /\ IsDirectory(Lookup(p))
      /\ Lookup(Append(p, name)) = DirSearch(Lookup(p), name)
    BY LookupAppend
<1>2. QED
    BY <1>1 DEF SearchFinds

LEMMA Found ==
    ASSUME SearchFinds, NEW p \in Seq(Names), p # << >>, Lookup(p) # NoInode
    PROVE  Lookup(p) \in Named /\ Lookup(p) # Root
<1>1. PICK q \in Seq(Names), name \in Names : p = Append(q, name)
    BY SequenceEmptyOrAppend
<1>2. QED
    BY <1>1, FoundAt DEF SearchFinds, Named

(* No two paths lead to the same file or directory. *)
OnePath == \A p, q \in Seq(Names) : Lookup(p) # NoInode /\ Lookup(p) = Lookup(q) => p = q

LEMMA EachOnePath == IInv /\ TreeInv => OnePath
<1> SUFFICES ASSUME IInv, TreeInv
             PROVE  OnePath
    OBVIOUS
<1> DEFINE S == {n \in Nat : \A p, q \in Seq(Names) :
                    Len(p) = n /\ Lookup(p) # NoInode /\ Lookup(p) = Lookup(q) => p = q}
<1>1. SearchFinds
    BY EachSearched
<1>2. 0 \in S
  <2>1. SUFFICES ASSUME NEW p \in Seq(Names), NEW q \in Seq(Names), Len(p) = 0,
                        Lookup(p) # NoInode, Lookup(p) = Lookup(q)
                 PROVE  p = q
      OBVIOUS
  <2>2. p = << >>
      BY <2>1
  <2>3. Lookup(q) = Root
      BY <2>1, <2>2, LookupRoot
  <2>4. q = << >>
      BY <1>1, <2>1, <2>3, Found
  <2>5. QED
      BY <2>2, <2>4
<1>3. ASSUME NEW n \in Nat, n \in S
      PROVE  n + 1 \in S
  <2>1. SUFFICES ASSUME NEW p \in Seq(Names), NEW q \in Seq(Names), Len(p) = n + 1,
                        Lookup(p) # NoInode, Lookup(p) = Lookup(q)
                 PROVE  p = q
      BY <1>3
  <2>2. p # << >>
      BY <2>1
  <2>3. q # << >>
      BY <1>1, <2>1, <2>2, Found, LookupRoot
  <2>4. PICK u \in Seq(Names), m \in Names : p = Append(u, m)
      BY <2>2, SequenceEmptyOrAppend
  <2>5. PICK v \in Seq(Names), k \in Names : q = Append(v, k)
      BY <2>3, SequenceEmptyOrAppend
  <2>6. PICK i \in Nat : /\ Holds(Lookup(u), i) /\ NameAt(Lookup(u), i) = m
                         /\ Lookup(p) = InodeAt(Lookup(u), i)
      BY <1>1, <2>1, <2>4, FoundAt
  <2>7. PICK j \in Nat : /\ Holds(Lookup(v), j) /\ NameAt(Lookup(v), j) = k
                         /\ Lookup(q) = InodeAt(Lookup(v), j)
      BY <1>1, <2>1, <2>5, FoundAt
  <2>8. Lookup(u) \in Inodes /\ Lookup(v) \in Inodes /\ Lookup(u) # NoInode
      BY <1>1, <2>6, <2>7 DEF SearchFinds
  <2>9. Lookup(u) = Lookup(v) /\ i = j
    <3>1. NamesInv /\ InodeAt(Lookup(u), i) = InodeAt(Lookup(v), j)
        BY <2>1, <2>6, <2>7 DEF IInv
    <3>2. PICK d, e : d = Lookup(u) /\ e = Lookup(v)
        OBVIOUS
    <3>3. d = e /\ i = j
        BY <2>6, <2>7, <2>8, <3>1, <3>2 DEF NamesInv
    <3>4. QED
        BY <3>2, <3>3
  <2>10. Len(u) = n
      BY <2>1, <2>4
  <2>11. u = v
      BY <1>3, <2>8, <2>9, <2>10
  <2>12. QED
      BY <2>4, <2>5, <2>6, <2>7, <2>9, <2>11
<1> HIDE DEF S
<1>4. \A n \in Nat : n \in S
    BY <1>2, <1>3, SetInduction
<1>5. \A p \in Seq(Names) : Len(p) \in Nat
    OBVIOUS
<1>6. QED
    BY <1>4, <1>5 DEF S, OnePath

-----------------------------------------------------------------------------
(* What a step does to the paths *)

(* The directories are as they were, and what else there is has stayed what it was. *)
DirsStay ==
    /\ inode_bmap' = inode_bmap
    /\ \A g \in inode_bmap : inode_tab'[g].type = inode_tab[g].type
    /\ \A g \in inode_bmap : inode_tab[g].type = "dir" =>
          /\ inode_tab'[g].size = inode_tab[g].size
          /\ \A pos \in Nat : pos < inode_tab[g].size =>
                CellIn(inode_tab, g, pos)' = CellIn(inode_tab, g, pos)

LookupsStay == \A p \in Seq(Names) : Lookup(p)' = Lookup(p)

LEMMA PathsStay ==
    ASSUME IInv, IInv', TreeInv, ReachInv, DirsStay
    PROVE  TreeInv' /\ ReachInv' /\ LookupsStay
<1> DEFINE S == {n \in Nat : \A p \in Seq(Names) : Len(p) = n => Lookup(p)' = Lookup(p)}
<1>1. SearchFinds /\ inode_bmap' = inode_bmap /\ Root \in inode_bmap /\ NoInode \in inode_bmap
    BY EachSearched DEF DirsStay, IInv, BitmapsInv
<1>2. \A d, pos : Holds(d, pos)' <=> Holds(d, pos)
    BY DEF DirsStay, Holds
<1>3. \A d : \A pos \in Nat : Holds(d, pos) => CellIn(inode_tab, d, pos)' = CellIn(inode_tab, d, pos)
    BY DEF DirsStay, Holds
<1>4. \A d : \A pos \in Nat : Holds(d, pos) => /\ NameAt(d, pos)' = NameAt(d, pos)
                                              /\ InodeAt(d, pos)' = InodeAt(d, pos)
    BY <1>3 DEF NameAt, InodeAt
<1>5. TreeInv'
  <2>1. inode_tab'[NoInode].type = "none" /\ inode_tab'[Root].type = "dir"
      BY <1>1 DEF TreeInv, DirsStay
  <2>2. QED
      BY <1>2, <1>4, <2>1 DEF TreeInv
<1>6. SearchFinds'
    BY <1>5, EachSearchedNext
<1>7. \A d : IsDirectory(d)' <=> IsDirectory(d)
    BY DEF DirsStay, IsDirectory
<1>8. ASSUME NEW d, NEW name, IsDirectory(d)
      PROVE  DirSearch(d, name)' = DirSearch(d, name)
  <2>1. CASE \E pos \in Nat : Holds(d, pos) /\ NameAt(d, pos) = name
    <3>1. PICK pos \in Nat : Holds(d, pos) /\ NameAt(d, pos) = name
        BY <2>1
    <3>2. DirSearch(d, name) = InodeAt(d, pos)
        BY <1>1, <1>8, <3>1 DEF SearchFinds
    <3>3. Holds(d, pos)' /\ NameAt(d, pos)' = name /\ InodeAt(d, pos)' = InodeAt(d, pos)
        BY <1>2, <1>4, <3>1
    <3>4. DirSearch(d, name)' = InodeAt(d, pos)'
        BY <1>6, <1>7, <1>8, <3>3 DEF SearchFinds
    <3>5. QED
        BY <3>2, <3>3, <3>4
  <2>2. CASE ~(\E pos \in Nat : Holds(d, pos) /\ NameAt(d, pos) = name)
    <3>1. DirSearch(d, name) = NoInode
        BY <1>1, <1>8, <2>2 DEF SearchFinds
    <3>2. ~(\E pos \in Nat : Holds(d, pos)' /\ NameAt(d, pos)' = name)
        BY <1>2, <1>4, <2>2
    <3>3. DirSearch(d, name)' = NoInode
        BY <1>6, <1>7, <1>8, <3>2 DEF SearchFinds
    <3>4. QED
        BY <3>1, <3>3
  <2>3. QED
      BY <2>1, <2>2
<1>9. 0 \in S
  <2>1. \A p \in Seq(Names) : Len(p) = 0 => p = << >>
      OBVIOUS
  <2>2. Lookup(<< >>) = Root /\ Lookup(<< >>)' = Root
      BY EachLookup, EachLookupNext DEF LooksUp
  <2>3. QED
      BY <2>1, <2>2
<1>10. ASSUME NEW n \in Nat, n \in S
       PROVE  n + 1 \in S
  <2>1. SUFFICES ASSUME NEW p \in Seq(Names), Len(p) = n + 1
                 PROVE  Lookup(p)' = Lookup(p)
      OBVIOUS
  <2>2. PICK u \in Seq(Names), m \in Names : p = Append(u, m)
      BY <2>1, SequenceEmptyOrAppend
  <2>3. Len(u) = n
      BY <2>1, <2>2
  <2>4. Lookup(u)' = Lookup(u)
      BY <1>10, <2>3
  <2>5. PICK d : d = Lookup(u)
      OBVIOUS
  <2>6. Lookup(p) = IF IsDirectory(d) THEN DirSearch(d, m) ELSE NoInode
      BY <2>2, <2>5, EachLookup DEF LooksUp
  <2>7. Lookup(p)' = IF IsDirectory(d)' THEN DirSearch(d, m)' ELSE NoInode
      BY <2>2, <2>4, <2>5, EachLookupNext DEF LooksUp
  <2>8. QED
      BY <1>7, <1>8, <2>6, <2>7
<1> HIDE DEF S
<1>11. \A n \in Nat : n \in S
    BY <1>9, <1>10, SetInduction
<1>12. LookupsStay
  <2>1. \A p \in Seq(Names) : Len(p) \in Nat
      OBVIOUS
  <2>2. QED
      BY <1>11, <2>1 DEF S, LookupsStay
<1>13. ReachInv'
  <2>1. Named' = Named
      BY <1>1 DEF Named
  <2>2. QED
      BY <1>12, <2>1 DEF ReachInv, LookupsStay
<1>14. QED
    BY <1>5, <1>12, <1>13

(* One more entry, with a name that its directory does not have: the searches that find
   something else than before *)
SearchesAdded(d, name, i) ==
    /\ \A x \in inode_bmap : IsDirectory(x)' <=> IsDirectory(x)
    /\ \A x, m : IsDirectory(x) /\ ~(x = d /\ m = name) => DirSearch(x, m)' = DirSearch(x, m)
    /\ DirSearch(d, name)' = i
    /\ \A m : IsDirectory(i)' => DirSearch(i, m)' = NoInode

LEMMA EntryAdded ==
    ASSUME IInv, IInv', TreeInv, NEW d, IsDirectory(d), NEW name \in Names,
           DirSearch(d, name) = NoInode, NEW type \in {"dir", "file"}, NEW i,
           Added(d, name, type, i)
    PROVE  TreeInv' /\ SearchesAdded(d, name, i)
<1>a. PICK size : size = inode_tab[d].size
    OBVIOUS
<1>1. /\ i \in Inodes \ inode_bmap /\ inode_bmap' = inode_bmap \cup {i}
      /\ inode_tab'[i].type = type /\ inode_tab'[i].size = 0
      /\ \A g \in inode_bmap : /\ inode_tab'[g].type = inode_tab[g].type
                               /\ g # d => inode_tab'[g].size = inode_tab[g].size
      /\ inode_tab'[d].size = size + 1
      /\ \A g \in inode_bmap, pos \in Nat : pos < inode_tab[g].size =>
            CellIn(inode_tab, g, pos)' = CellIn(inode_tab, g, pos)
      /\ \A pos \in Nat : pos = size => CellIn(inode_tab, d, pos)' = [name |-> name, inodeid |-> i]
    BY <1>a DEF Added
<1>2. /\ SearchFinds /\ d \in Inodes /\ d \in inode_bmap /\ inode_tab[d].type = "dir"
      /\ size \in Nat /\ d # i /\ {NoInode, Root} \subseteq inode_bmap
    BY <1>1, <1>a, EachSearched DEF SearchFinds, IsDirectory, IInv, BitmapsInv
<1>3. ASSUME NEW x, NEW pos \in Nat
      PROVE  Holds(x, pos)' <=> Holds(x, pos) \/ (x = d /\ pos = size)
  <2>1. CASE x = d
    <3>1. pos < size + 1 <=> pos < size \/ pos = size
        BY <1>2
    <3>2. QED
        BY <1>1, <1>2, <1>a, <2>1, <3>1 DEF Holds
  <2>2. CASE x = i
      BY <1>1, <1>2, <2>2 DEF Holds
  <2>3. CASE x # d /\ x # i
      BY <1>1, <2>3 DEF Holds
  <2>4. QED
      BY <2>1, <2>2, <2>3
<1>4. \A x : \A pos \in Nat : Holds(x, pos) => /\ NameAt(x, pos)' = NameAt(x, pos)
                                              /\ InodeAt(x, pos)' = InodeAt(x, pos)
    BY <1>1 DEF Holds, NameAt, InodeAt
<1>5. NameAt(d, size)' = name /\ InodeAt(d, size)' = i /\ Holds(d, size)'
    BY <1>1, <1>2, <1>3 DEF NameAt, InodeAt
<1>6. \A pos \in Nat : Holds(d, pos) => NameAt(d, pos) # name
    BY <1>2 DEF SearchFinds, Named
<1>7. TreeInv'
  <2>1. inode_tab'[NoInode].type = "none" /\ inode_tab'[Root].type = "dir"
      BY <1>1, <1>2 DEF TreeInv
  <2>2. \A x \in Inodes, pos \in Nat : Holds(x, pos)' => NameAt(x, pos)' \in Names
      BY <1>3, <1>4, <1>5 DEF TreeInv
  <2>3. ASSUME NEW x \in Inodes, NEW pos \in Nat, NEW p \in Nat, Holds(x, pos)', Holds(x, p)',
               NameAt(x, pos)' = NameAt(x, p)'
        PROVE  pos = p
    <3>1. CASE Holds(x, pos) /\ Holds(x, p)
        BY <1>4, <2>3, <3>1 DEF TreeInv
    <3>2. CASE ~(Holds(x, pos) /\ Holds(x, p))
        BY <1>3, <1>4, <1>5, <1>6, <2>3, <3>2
    <3>3. QED
        BY <3>1, <3>2
  <2>4. QED
      BY <2>1, <2>2, <2>3 DEF TreeInv
<1>8. SearchFinds'
    BY <1>7, EachSearchedNext
<1>9. \A x \in inode_bmap : IsDirectory(x)' <=> IsDirectory(x)
    BY <1>1 DEF IsDirectory
<1>10. ASSUME NEW x, NEW m, IsDirectory(x), ~(x = d /\ m = name)
       PROVE  DirSearch(x, m)' = DirSearch(x, m)
  <2>1. IsDirectory(x)'
      BY <1>9, <1>10 DEF IsDirectory
  <2>2. CASE \E pos \in Nat : Holds(x, pos) /\ NameAt(x, pos) = m
    <3>1. PICK pos \in Nat : Holds(x, pos) /\ NameAt(x, pos) = m
        BY <2>2
    <3>2. DirSearch(x, m) = InodeAt(x, pos)
        BY <1>2, <1>10, <3>1 DEF SearchFinds
    <3>3. Holds(x, pos)' /\ NameAt(x, pos)' = m /\ InodeAt(x, pos)' = InodeAt(x, pos)
        BY <1>3, <1>4, <3>1
    <3>4. DirSearch(x, m)' = InodeAt(x, pos)'
        BY <1>8, <2>1, <3>3 DEF SearchFinds
    <3>5. QED
        BY <3>2, <3>3, <3>4
  <2>3. CASE ~(\E pos \in Nat : Holds(x, pos) /\ NameAt(x, pos) = m)
    <3>1. DirSearch(x, m) = NoInode
        BY <1>2, <1>10, <2>3 DEF SearchFinds
    <3>2. ~(\E pos \in Nat : Holds(x, pos)' /\ NameAt(x, pos)' = m)
        BY <1>3, <1>4, <1>5, <1>10, <2>3
    <3>3. DirSearch(x, m)' = NoInode
        BY <1>8, <2>1, <3>2 DEF SearchFinds
    <3>4. QED
        BY <3>1, <3>3
  <2>4. QED
      BY <2>2, <2>3
<1>11. DirSearch(d, name)' = i
  <2>1. IsDirectory(d)'
      BY <1>2, <1>9
  <2>2. QED
      BY <1>2, <1>5, <1>8, <2>1 DEF SearchFinds
<1>12. ASSUME NEW m, IsDirectory(i)'
       PROVE  DirSearch(i, m)' = NoInode
  <2>1. \A pos \in Nat : ~Holds(i, pos)'
      BY <1>1, <1>2, <1>3 DEF Holds
  <2>2. QED
      BY <1>8, <1>12, <2>1 DEF SearchFinds
<1>13. QED
    BY <1>7, <1>9, <1>10, <1>11, <1>12 DEF SearchesAdded

(* Path q leads to the new inode i, and the others where they led before. *)
PathAdded(q, i) ==
    /\ q \in Seq(Names) /\ q # << >> /\ Len(q) <= Cardinality(Named)' /\ Lookup(q) = NoInode
    /\ \A p \in Seq(Names) : Lookup(p)' = IF p = q THEN i ELSE Lookup(p)

LEMMA PathTo ==
    ASSUME IInv, ReachInv, NEW d \in inode_bmap, d # NoInode
    PROVE  \E p \in Seq(Names) : Len(p) <= Cardinality(Named) /\ Lookup(p) = d
<1>1. Cardinality(Named) \in Nat
  <2>1. Named \subseteq Inodes
      BY DEF IInv, TypeOK, Named
  <2>2. IsFiniteSet(Named)
      BY <2>1, BlockNumbers, FS_Subset
  <2>3. QED
      BY <2>2, FS_CardinalityType
<1>2. CASE d = Root
  <2>1. PICK e : e = << >>
      OBVIOUS
  <2>2. e \in Seq(Names) /\ Len(e) = 0
      BY <2>1
  <2>3. Lookup(e) = d
      BY <1>2, <2>1, LookupRoot
  <2>4. Len(e) <= Cardinality(Named)
      BY <1>1, <2>2
  <2>5. QED
      BY <2>2, <2>3, <2>4
<1>3. CASE d # Root
    BY <1>3 DEF ReachInv, Named
<1>4. QED
    BY <1>2, <1>3

LEMMA PathsAdded ==
    ASSUME IInv, IInv', TreeInv, ReachInv, NEW d, IsDirectory(d), NEW name \in Names,
           DirSearch(d, name) = NoInode, NEW type \in {"dir", "file"}, NEW i,
           Added(d, name, type, i)
    PROVE  /\ TreeInv' /\ ReachInv'
           /\ \E up \in Seq(Names) : Lookup(up) = d /\ PathAdded(Append(up, name), i)
<1>1. /\ i \in Inodes \ inode_bmap /\ inode_bmap' = inode_bmap \cup {i}
      /\ {NoInode, Root} \subseteq inode_bmap /\ inode_bmap \subseteq Inodes
      /\ SearchFinds /\ OnePath /\ LooksUp /\ LooksUp'
    BY EachSearched, EachOnePath, EachLookup, EachLookupNext DEF Added, IInv, BitmapsInv, TypeOK
<1>2. TreeInv' /\ SearchesAdded(d, name, i)
    BY EntryAdded
<1>3. d \in inode_bmap /\ d # NoInode /\ d # i
    BY <1>1 DEF IsDirectory, SearchFinds
<1>4. PICK up \in Seq(Names) : Len(up) <= Cardinality(Named) /\ Lookup(up) = d
    BY <1>3, PathTo
<1>5. PICK q : q = Append(up, name)
    OBVIOUS
<1>6. q \in Seq(Names) /\ q # << >> /\ Len(q) = Len(up) + 1 /\ Len(up) \in Nat
    BY <1>4, <1>5
<1>7. Lookup(q) = NoInode
    BY <1>1, <1>4, <1>5 DEF LooksUp
<1>8. /\ Named' = Named \cup {i} /\ i \notin Named
      /\ Cardinality(Named)' = Cardinality(Named) + 1 /\ Cardinality(Named) \in Nat
  <2>1. Named' = Named \cup {i} /\ i \notin Named /\ Named \subseteq Inodes
      BY <1>1 DEF Named
  <2>2. PICK N : N = Named
      OBVIOUS
  <2>3. IsFiniteSet(N)
      BY <2>1, <2>2, BlockNumbers, FS_Subset
  <2>4. Cardinality(N \cup {i}) = Cardinality(N) + 1 /\ Cardinality(N) \in Nat
      BY <2>1, <2>2, <2>3, FS_AddElement, FS_CardinalityType
  <2>5. Cardinality(Named)' = Cardinality(N \cup {i})
      BY <2>1, <2>2
  <2>6. QED
      BY <2>1, <2>2, <2>4, <2>5
<1>9. \A p \in Seq(Names) : Lookup(p) = d => p = up
    BY <1>1, <1>3, <1>4 DEF OnePath
<1> DEFINE S == {n \in Nat : \A p \in Seq(Names) : Len(p) = n =>
                    Lookup(p)' = IF p = q THEN i ELSE Lookup(p)}
<1>10. 0 \in S
  <2>1. \A p \in Seq(Names) : Len(p) = 0 => p = << >>
      OBVIOUS
  <2>2. QED
      BY <1>1, <1>6, <2>1 DEF LooksUp
<1>11. ASSUME NEW n \in Nat, n \in S
       PROVE  n + 1 \in S
  <2>1. SUFFICES ASSUME NEW p \in Seq(Names), Len(p) = n + 1
                 PROVE  Lookup(p)' = IF p = q THEN i ELSE Lookup(p)
      OBVIOUS
  <2>a. p # << >>
      BY <2>1
  <2>2. PICK u \in Seq(Names), m \in Names : p = Append(u, m)
      BY <2>a, SequenceEmptyOrAppend
  <2>3. Len(u) = n
      BY <2>1, <2>2
  <2>4. PICK x : x = Lookup(u)
      OBVIOUS
  <2>5. PICK y : y = IF u = q THEN i ELSE x
      OBVIOUS
  <2>6. Lookup(u)' = y
      BY <1>11, <2>3, <2>4, <2>5
  <2>7. Lookup(p) = IF IsDirectory(x) THEN DirSearch(x, m) ELSE NoInode
      BY <1>1, <2>2, <2>4 DEF LooksUp
  <2>8. Lookup(p)' = IF IsDirectory(y)' THEN DirSearch(y, m)' ELSE NoInode
      BY <1>1, <2>2, <2>6 DEF LooksUp
  <2>9. p = q <=> u = up /\ m = name
      BY <1>4, <1>5, <2>2, AppendInjective
  <2>10. u = up <=> x = d
      BY <1>4, <1>9, <2>4
  <2>11. CASE u = q
    <3>1. x = NoInode /\ y = i /\ u # up
        BY <1>6, <1>7, <2>4, <2>5, <2>11
    <3>2. Lookup(p) = NoInode /\ Lookup(p)' = NoInode
        BY <1>1, <1>2, <2>7, <2>8, <3>1 DEF SearchFinds, SearchesAdded
    <3>3. QED
        BY <2>9, <3>1, <3>2
  <2>12. CASE u # q
    <3>1. y = x
        BY <2>5, <2>12
    <3>2. x \in inode_bmap
      <4>1. CASE u = << >>
          BY <1>1, <2>4, <4>1 DEF LooksUp
      <4>2. CASE u # << >>
          BY <1>1, <2>4, <4>2, Found DEF Named
      <4>3. QED
          BY <4>1, <4>2
    <3>3. IsDirectory(x)' <=> IsDirectory(x)
        BY <1>2, <3>2 DEF SearchesAdded
    <3>4. CASE x = d /\ m = name
        BY <1>2, <2>8, <2>9, <2>10, <3>1, <3>3, <3>4 DEF SearchesAdded
    <3>5. CASE ~(x = d /\ m = name)
        BY <1>2, <2>7, <2>8, <2>9, <2>10, <3>1, <3>3, <3>5 DEF SearchesAdded
    <3>6. QED
        BY <3>4, <3>5
  <2>13. QED
      BY <2>11, <2>12
<1> HIDE DEF S
<1>12. \A n \in Nat : n \in S
    BY <1>10, <1>11, SetInduction
<1>13. \A p \in Seq(Names) : Lookup(p)' = IF p = q THEN i ELSE Lookup(p)
  <2>1. \A p \in Seq(Names) : Len(p) \in Nat
      OBVIOUS
  <2>2. QED
      BY <1>12, <2>1 DEF S
<1>14. Len(q) <= Cardinality(Named)'
    BY <1>4, <1>6, <1>8
<1>15. ReachInv'
  <2>1. SUFFICES ASSUME NEW f \in Named'
                 PROVE  \E p \in Seq(Names) : Len(p) <= Cardinality(Named)' /\ Lookup(p)' = f
      BY DEF ReachInv
  <2>2. CASE f = i
      BY <1>6, <1>13, <1>14, <2>2
  <2>3. CASE f \in Named
    <3>1. PICK p \in Seq(Names) : Len(p) <= Cardinality(Named) /\ Lookup(p) = f
        BY <2>3 DEF ReachInv
    <3>2. p # q
        BY <1>7, <2>3, <3>1 DEF Named
    <3>3. Len(p) \in Nat
        OBVIOUS
    <3>4. QED
        BY <1>8, <1>13, <3>1, <3>2, <3>3
  <2>4. QED
      BY <1>8, <2>1, <2>2, <2>3
<1>16. PathAdded(q, i)
    BY <1>6, <1>7, <1>13, <1>14 DEF PathAdded
<1>17. QED
    BY <1>2, <1>4, <1>5, <1>15, <1>16

-----------------------------------------------------------------------------
(* What the paths name *)

Whole(f) == Read(inode_tab, f, 0, inode_tab[f].size)

Object(f) == IF f = NoInode THEN Stores!Absent
             ELSE [kind |-> inode_tab[f].type,
                   content |-> IF inode_tab[f].type = "file" THEN Whole(f) ELSE << >>]

WholeShown == \A f \in Inodes :
    /\ inode_tab[f].size \in Nat /\ Len(Whole(f)) = inode_tab[f].size
    /\ Whole(f) = [k \in 1 .. inode_tab[f].size |-> CellIn(inode_tab, f, k - 1)]

LEMMA EachWhole == TypeOK => WholeShown
<1> SUFFICES ASSUME TypeOK, NEW f \in Inodes
             PROVE  /\ inode_tab[f].size \in Nat /\ Len(Whole(f)) = inode_tab[f].size
                    /\ Whole(f) = [k \in 1 .. inode_tab[f].size |-> CellIn(inode_tab, f, k - 1)]
    BY DEF WholeShown
<1>1. PICK size : size = inode_tab[f].size
    OBVIOUS
<1>2. size \in Nat
    BY <1>1, RecordType
<1>3. Least(size, size - 0) = size
    BY <1>2 DEF Least
<1>4. \A k \in 1 .. size : 0 + k - 1 = k - 1
    BY <1>2
<1>5. Whole(f) = [k \in 1 .. size |-> CellIn(inode_tab, f, k - 1)]
    BY <1>1, <1>3, <1>4 DEF Whole, Read
<1>6. PICK R : R = {CellIn(inode_tab, f, k - 1) : k \in 1 .. size}
    OBVIOUS
<1>7. Whole(f) \in [1 .. size -> R]
    BY <1>5, <1>6
<1>8. Len(Whole(f)) = size
    BY <1>2, <1>7
<1>9. QED
    BY <1>1, <1>2, <1>5, <1>8

LEMMA EachWholeNext == TypeOK' => WholeShown'
BY EachWhole, PTL

TreeShows == \A p \in Paths : \A f : f = Lookup(p) => Tree[p] = Object(f)

LEMMA TreeShown == TreeShows
BY DEF TreeShows, Tree, Object, Whole, Stores!Absent

LEMMA TreeShownNext == TreeShows'
BY TreeShown, PTL

LEMMA InPaths ==
    /\ \A p \in Paths : p \in Seq(Names) /\ p # << >>
    /\ \A p \in Seq(Names) : p # << >> /\ Len(p) <= ITAB_SIZE - 2 => p \in Paths
<1>1. ASSUME NEW p \in Paths
      PROVE  p \in Seq(Names) /\ p # << >>
  <2>1. PICK n \in 1 .. ITAB_SIZE - 2 : p \in [1 .. n -> Names]
      BY DEF Paths
  <2>2. n \in Nat /\ n # 0
      BY <2>1, FSAssumption
  <2>3. p \in Seq(Names) /\ Len(p) = n
      BY <2>1, <2>2
  <2>4. QED
      BY <2>2, <2>3
<1>2. ASSUME NEW p \in Seq(Names), p # << >>, Len(p) <= ITAB_SIZE - 2
      PROVE  p \in Paths
  <2>1. p \in [1 .. Len(p) -> Names] /\ Len(p) \in Nat /\ Len(p) # 0
      BY <1>2
  <2>2. Len(p) \in 1 .. ITAB_SIZE - 2
      BY <1>2, <2>1, FSAssumption
  <2>3. QED
      BY <2>1, <2>2 DEF Paths
<1>3. QED
    BY <1>1, <1>2

PathsFit == Cardinality(Named) \in Nat /\ Cardinality(Named) <= ITAB_SIZE - 2

LEMMA EachPathFits == IInv => PathsFit
<1> SUFFICES ASSUME IInv
             PROVE  PathsFit
    OBVIOUS
<1>1. Named \subseteq 2 .. ITAB_SIZE - 1
    BY FSAssumption DEF IInv, TypeOK, Named, Inodes, NoInode, Root
<1>2. 2 \in Int /\ ITAB_SIZE - 1 \in Int /\ ITAB_SIZE > 2
    BY FSAssumption
<1>3. /\ IsFiniteSet(2 .. ITAB_SIZE - 1)
      /\ Cardinality(2 .. ITAB_SIZE - 1) = IF 2 > ITAB_SIZE - 1 THEN 0 ELSE ITAB_SIZE - 1 - 2 + 1
    BY <1>2, FS_Interval
<1>4. Cardinality(2 .. ITAB_SIZE - 1) = ITAB_SIZE - 2
    BY <1>2, <1>3, FSAssumption
<1>5. /\ IsFiniteSet(Named) /\ Cardinality(Named) <= Cardinality(2 .. ITAB_SIZE - 1)
      /\ Cardinality(Named) \in Nat
    BY <1>1, <1>3, FS_Subset, FS_CardinalityType
<1>6. QED
    BY <1>4, <1>5 DEF PathsFit

LEMMA EachPathFitsNext == IInv' => PathsFit'
BY EachPathFits, PTL

LEMMA ObjectStays ==
    ASSUME TypeOK, NEW f \in Inodes, SameIn({f})
    PROVE  Object(f)' = Object(f)
<1>1. inode_tab'[f].type = inode_tab[f].type
    BY DEF SameIn
<1>2. Whole(f)' = Whole(f)
    BY ReadSame DEF SameIn, Whole
<1>3. QED
    BY <1>1, <1>2 DEF Object

-----------------------------------------------------------------------------
(* Every call is one of FileStore's, or changes nothing. *)

PathInv == IInv /\ TreeInv /\ ReachInv

LEMMA PathInvFacts ==
    ASSUME PathInv
    PROVE  /\ TypeOK /\ inode_bmap \subseteq Inodes /\ SearchFinds /\ OnePath
           /\ \A p \in Seq(Names) : Lookup(p) \in inode_bmap
<1>1. /\ TypeOK /\ inode_bmap \subseteq Inodes /\ SearchFinds /\ OnePath
      /\ {NoInode, Root} \subseteq inode_bmap
    BY EachSearched, EachOnePath DEF PathInv, IInv, TypeOK, BitmapsInv
<1>2. ASSUME NEW p \in Seq(Names)
      PROVE  Lookup(p) \in inode_bmap
  <2>1. CASE p = << >>
      BY <1>1, <2>1, LookupRoot
  <2>2. CASE p # << >>
      BY <1>1, <2>2, Found DEF Named
  <2>3. QED
      BY <2>1, <2>2
<1>3. QED
    BY <1>1, <1>2

(* No file and no directory has changed. *)
LEMMA QuietStep ==
    ASSUME PathInv, IInv', inode_bmap' = inode_bmap, SameIn(inode_bmap)
    PROVE  PathInv' /\ Tree' = Tree
<1>1. DirsStay
    BY DEF DirsStay, SameIn
<1>2. TreeInv' /\ ReachInv' /\ LookupsStay
    BY <1>1, PathsStay DEF PathInv
<1>3. ASSUME NEW p \in Paths
      PROVE  Tree'[p] = Tree[p]
  <2>1. PICK f : f = Lookup(p)
      OBVIOUS
  <2>2. f \in inode_bmap /\ f \in Inodes /\ TypeOK /\ Lookup(p)' = f
      BY <1>2, <2>1, PathInvFacts, InPaths DEF LookupsStay
  <2>3. SameIn({f})
      BY <2>2 DEF SameIn
  <2>4. Object(f)' = Object(f)
      BY <2>2, <2>3, ObjectStays
  <2>5. Tree[p] = Object(f) /\ Tree'[p] = Object(f)'
      BY <2>1, <2>2, TreeShown, TreeShownNext DEF TreeShows
  <2>6. QED
      BY <2>4, <2>5
<1>4. Tree' = Tree
  <2>1. Tree = [p \in Paths |-> Tree[p]] /\ Tree' = [p \in Paths |-> Tree'[p]]
      BY DEF Tree
  <2>2. QED
      BY <1>3, <2>1
<1>5. QED
    BY <1>2, <1>4 DEF PathInv

(* One file has changed. *)
LEMMA FileStep ==
    ASSUME PathInv, IInv', NEW f, IsFile(f), inode_bmap' = inode_bmap,
           inode_tab'[f].type = inode_tab[f].type, SameIn(inode_bmap \ {f})
    PROVE  /\ PathInv'
           /\ \E q \in Paths : /\ Tree[q] = Stores!File(Whole(f))
                               /\ Tree' = [Tree EXCEPT ![q] = Stores!File(Whole(f)')]
<1>1. /\ TypeOK /\ inode_bmap \subseteq Inodes /\ SearchFinds /\ OnePath /\ PathsFit
      /\ \A p \in Seq(Names) : Lookup(p) \in inode_bmap
    BY PathInvFacts, EachPathFits DEF PathInv
<1>2. f \in inode_bmap /\ inode_tab[f].type = "file" /\ f # NoInode /\ f # Root
    BY DEF IsFile, PathInv, TreeInv
<1>3. DirsStay
    BY <1>2 DEF DirsStay, SameIn
<1>4. TreeInv' /\ ReachInv' /\ LookupsStay
    BY <1>3, PathsStay DEF PathInv
<1>5. PICK q \in Seq(Names) : Len(q) <= Cardinality(Named) /\ Lookup(q) = f
    BY <1>2, PathTo DEF PathInv
<1>6. q \in Paths
  <2>1. q # << >>
      BY <1>2, <1>5, LookupRoot
  <2>2. Len(q) <= ITAB_SIZE - 2
    <3>1. Len(q) \in Nat
        OBVIOUS
    <3>2. QED
        BY <1>1, <1>5, <3>1, FSAssumption DEF PathsFit
  <2>3. QED
      BY <2>1, <2>2, InPaths
<1>7. Tree[q] = Stores!File(Whole(f)) /\ Tree'[q] = Stores!File(Whole(f)')
  <2>1. Tree[q] = Object(f) /\ Tree'[q] = Object(f)'
      BY <1>4, <1>5, <1>6, TreeShown, TreeShownNext DEF TreeShows, LookupsStay
  <2>2. Object(f) = Stores!File(Whole(f)) /\ Object(f)' = Stores!File(Whole(f)')
      BY <1>2 DEF Object, Stores!File
  <2>3. QED
      BY <2>1, <2>2
<1>8. ASSUME NEW p \in Paths, p # q
      PROVE  Tree'[p] = Tree[p]
  <2>1. PICK g : g = Lookup(p)
      OBVIOUS
  <2>2. g \in inode_bmap /\ g \in Inodes /\ Lookup(p)' = g /\ g # f
      BY <1>1, <1>2, <1>4, <1>5, <1>8, <2>1, InPaths DEF LookupsStay, OnePath
  <2>3. SameIn({g})
      BY <2>2 DEF SameIn
  <2>4. Object(g)' = Object(g)
      BY <1>1, <2>2, <2>3, ObjectStays
  <2>5. Tree[p] = Object(g) /\ Tree'[p] = Object(g)'
      BY <2>1, <2>2, TreeShown, TreeShownNext DEF TreeShows
  <2>6. QED
      BY <2>4, <2>5
<1>9. Tree' = [Tree EXCEPT ![q] = Stores!File(Whole(f)')]
  <2>1. Tree = [p \in Paths |-> Tree[p]] /\ Tree' = [p \in Paths |-> Tree'[p]]
      BY DEF Tree
  <2>2. QED
      BY <1>6, <1>7, <1>8, <2>1
<1>10. QED
    BY <1>4, <1>6, <1>7, <1>9 DEF PathInv

LEMMA ParentOf ==
    ASSUME NEW p \in Seq(Names), NEW name \in Names
    PROVE  Stores!Parent(Append(p, name)) = p
<1> DEFINE q == Append(p, name)
<1>1. /\ q \in Seq(Names) /\ Len(q) = Len(p) + 1 /\ Len(p) \in Nat
      /\ \A k \in 1 .. Len(p) : q[k] = p[k]
    OBVIOUS
<1> HIDE DEF q
<1>2. Stores!Parent(q) = SubSeq(q, 1, Len(p))
    BY <1>1 DEF Stores!Parent
<1>3. SubSeq(q, 1, Len(p)) = [k \in 1 .. Len(p) |-> q[k]]
    BY <1>1
<1>4. p = [k \in 1 .. Len(p) |-> p[k]]
    OBVIOUS
<1>5. QED
    BY <1>1, <1>2, <1>3, <1>4 DEF q

(* A new file or directory is empty, and nothing else is where it was not. *)
LEMMA AddStep ==
    ASSUME PathInv, NEW d, IsDirectory(d), NEW name \in Names, DirSearch(d, name) = NoInode,
           NEW type \in {"dir", "file"}, AddEntry(d, name, type)
    PROVE  /\ PathInv'
           /\ \E q \in Paths : Stores!Create(q) \/ Stores!Mkdir(q)
<1>1. PICK i : i = FreeInode
    OBVIOUS
<1>2. IInv' /\ Added(d, name, type, i) /\ asked' = None
    BY <1>1, AddKeeps DEF AddEntry, PathInv
<1>3. /\ TreeInv' /\ ReachInv'
      /\ \E up \in Seq(Names) : Lookup(up) = d /\ PathAdded(Append(up, name), i)
    BY <1>2, PathsAdded DEF PathInv
<1>4. PICK up \in Seq(Names) : Lookup(up) = d /\ PathAdded(Append(up, name), i)
    BY <1>3
<1>5. PICK q : q = Append(up, name)
    OBVIOUS
<1>6. /\ q \in Seq(Names) /\ q # << >> /\ Len(q) <= Cardinality(Named)' /\ Lookup(q) = NoInode
      /\ \A p \in Seq(Names) : Lookup(p)' = IF p = q THEN i ELSE Lookup(p)
      /\ Len(q) = Len(up) + 1 /\ Len(up) \in Nat /\ Len(q) \in Nat
    BY <1>4, <1>5 DEF PathAdded
<1>7. /\ TypeOK /\ inode_bmap \subseteq Inodes /\ SearchFinds /\ WholeShown'
      /\ \A p \in Seq(Names) : Lookup(p) \in inode_bmap
      /\ PathsFit' /\ ITAB_SIZE \in Nat
    BY <1>2, PathInvFacts, EachWholeNext, EachPathFitsNext, FSAssumption DEF PathInv, IInv
<1>8. /\ q \in Paths
      /\ up = << >> \/ up \in Paths
  <2>1. Len(q) <= ITAB_SIZE - 2 /\ Len(up) <= ITAB_SIZE - 2
      BY <1>6, <1>7 DEF PathsFit
  <2>2. QED
      BY <1>6, <2>1, InPaths
<1>9. Tree[q] = Stores!Absent
    BY <1>6, <1>8, TreeShown DEF TreeShows, Object
<1>10. Stores!InDirectory(q)
  <2>1. Stores!Parent(q) = up
      BY <1>5, ParentOf
  <2>2. ASSUME up \in Paths
        PROVE  Tree[up] = Stores!Directory
    <3>1. Tree[up] = Object(d)
        BY <1>4, <2>2, TreeShown DEF TreeShows
    <3>2. d # NoInode /\ inode_tab[d].type = "dir"
        BY <1>7 DEF SearchFinds, IsDirectory
    <3>3. QED
        BY <3>1, <3>2 DEF Object, Stores!Directory
  <2>3. QED
      BY <1>8, <2>1, <2>2 DEF Stores!InDirectory
<1>11. PICK new : new = IF type = "dir" THEN Stores!Directory ELSE Stores!File(<< >>)
    OBVIOUS
<1>12. Tree'[q] = new
  <2>1. Tree'[q] = Object(i)'
      BY <1>6, <1>8, TreeShownNext DEF TreeShows
  <2>2. i # NoInode /\ inode_tab'[i].type = type /\ inode_tab'[i].size = 0 /\ i \in Inodes
      BY <1>2, <1>7 DEF Added, SearchFinds
  <2>3. Whole(i)' = << >>
    <3>1. Whole(i)' = [k \in 1 .. 0 |-> CellIn(inode_tab, i, k - 1)']
        BY <1>7, <2>2 DEF WholeShown
    <3>2. QED
        BY <3>1
  <2>4. QED
      BY <1>11, <2>1, <2>2, <2>3 DEF Object, Stores!Directory, Stores!File
<1>13. ASSUME NEW p \in Paths, p # q
       PROVE  Tree'[p] = Tree[p]
  <2>1. PICK g : g = Lookup(p)
      OBVIOUS
  <2>2. g \in inode_bmap /\ g \in Inodes /\ Lookup(p)' = g
      BY <1>6, <1>7, <1>13, <2>1, InPaths
  <2>3. Tree[p] = Object(g) /\ Tree'[p] = Object(g)'
      BY <2>1, <2>2, TreeShown, TreeShownNext DEF TreeShows
  <2>4. CASE g # d
    <3>1. SameIn({g})
        BY <1>2, <2>2, <2>4 DEF SameIn, Added
    <3>2. Object(g)' = Object(g)
        BY <1>7, <2>2, <3>1, ObjectStays
    <3>3. QED
        BY <2>3, <3>2
  <2>5. CASE g = d
    <3>1. d # NoInode /\ inode_tab[d].type = "dir" /\ inode_tab'[d].type = "dir"
        BY <1>2, <1>7, <2>2, <2>5 DEF SearchFinds, IsDirectory, Added
    <3>2. Object(d)' = Object(d)
        BY <3>1 DEF Object
    <3>3. QED
        BY <2>3, <2>5, <3>2
  <2>6. QED
      BY <2>4, <2>5
<1>14. Tree' = [Tree EXCEPT ![q] = new]
  <2>1. Tree = [p \in Paths |-> Tree[p]] /\ Tree' = [p \in Paths |-> Tree'[p]]
      BY DEF Tree
  <2>2. QED
      BY <1>8, <1>12, <1>13, <2>1
<1>15. Stores!Add(q, new)
    BY <1>2, <1>9, <1>10, <1>14 DEF Stores!Add
<1>16. Stores!Create(q) \/ Stores!Mkdir(q)
    BY <1>11, <1>15 DEF Stores!Create, Stores!Mkdir
<1>17. QED
    BY <1>2, <1>3, <1>8, <1>16 DEF PathInv

(* What is written is what is read. *)
LEMMA WrittenWhole ==
    ASSUME IInv, IInv', NEW f, IsFile(f), NEW n \in Nat, n <= inode_tab[f].size,
           NEW data \in Seq(Data), Written(f, n, data)
    PROVE  Whole(f)' = Stores!Overwrite(Whole(f), n, data)
<1>a. PICK size : size = inode_tab[f].size
    OBVIOUS
<1>b. PICK new : new = IF size < n + Len(data) THEN n + Len(data) ELSE size
    OBVIOUS
<1>c. PICK c : c = Whole(f)
    OBVIOUS
<1>1. /\ f \in Inodes /\ size \in Nat /\ Len(c) = size
      /\ c = [k \in 1 .. size |-> CellIn(inode_tab, f, k - 1)]
    BY <1>a, <1>c, EachWhole DEF IInv, TypeOK, IsFile, WholeShown
<1>2. Len(data) \in Nat /\ new \in Nat /\ inode_tab'[f].size = new
  <2>1. Len(data) \in Nat /\ size \in Nat /\ n \in Nat
      BY <1>1
  <2>2. inode_tab'[f].size = Most(n + Len(data), size)
      BY <1>a DEF Written
  <2>3. new = Most(n + Len(data), size)
      BY <2>1, <1>b DEF Most
  <2>4. new \in Nat
      BY <2>1, <1>b
  <2>5. QED
      BY <2>1, <2>2, <2>3, <2>4
<1>3. Whole(f)' = [k \in 1 .. new |-> CellIn(inode_tab, f, k - 1)']
  <2>1. TypeOK'
      BY DEF IInv
  <2>2. WholeShown'
      BY <2>1, EachWholeNext
  <2>3. Whole(f)' = [k \in 1 .. inode_tab'[f].size |-> CellIn(inode_tab, f, k - 1)']
      BY <1>1, <2>2 DEF WholeShown
  <2>4. QED
      BY <1>2, <2>3
<1>4. ASSUME NEW k \in 1 .. new
      PROVE  CellIn(inode_tab, f, k - 1)' = IF k > n /\ k <= n + Len(data) THEN data[k - n] ELSE c[k]
  <2>1. k - 1 \in Nat /\ k - 1 < new /\ (k - 1) - n + 1 = k - n
      BY <1>2
  <2>2. n <= k - 1 /\ k - 1 < n + Len(data) <=> k > n /\ k <= n + Len(data)
      BY <1>2
  <2>3. ~(k > n /\ k <= n + Len(data)) => k \in 1 .. size
    <3>1. size \in Nat /\ Len(data) \in Nat /\ k \in Nat /\ n <= size
        BY <1>1, <1>2, <1>a
    <3>2. k >= 1 /\ k <= new
        BY <1>2
    <3>3. QED
        BY <3>1, <3>2, <1>b
  <2>4. k \in 1 .. size => c[k] = CellIn(inode_tab, f, k - 1)
      BY <1>1
  <2>5. \A pos \in Nat : pos < new =>
           CellIn(inode_tab, f, pos)' = IF n <= pos /\ pos < n + Len(data)
                                        THEN data[pos - n + 1] ELSE CellIn(inode_tab, f, pos)
      BY <1>2 DEF Written
  <2>6. CellIn(inode_tab, f, k - 1)' = IF n <= k - 1 /\ k - 1 < n + Len(data)
                                       THEN data[(k - 1) - n + 1] ELSE CellIn(inode_tab, f, k - 1)
      BY <2>1, <2>5
  <2>7. QED
      BY <1>1, <1>2, <2>1, <2>2, <2>3, <2>4, <2>6
<1>5. QED
    BY <1>1, <1>3, <1>4, <1>b, <1>c DEF Stores!Overwrite

LEMMA WriteStep ==
    ASSUME PathInv, NEW f \in Inodes, NEW start \in Nat, NEW data \in Seq(Data),
           Write(f, start, data)
    PROVE  PathInv' /\ \E q \in Paths : Stores!Write(q)
<1>1. PICK n : n = StartAt(f, start)
    OBVIOUS
<1>2. /\ IInv' /\ Written(f, n, data) /\ IsFile(f)
      /\ asked' = [start |-> start, data |-> data]
    BY <1>1, WriteKeeps DEF PathInv, Write
<1>3. n \in Nat /\ n <= inode_tab[f].size /\ inode_tab[f].size \in Nat
    BY <1>1, RecordType DEF PathInv, IInv, StartAt, Least
<1>4. inode_bmap' = inode_bmap /\ inode_tab'[f].type = inode_tab[f].type
    BY <1>2 DEF Written
<1>5. SameIn(inode_bmap \ {f})
    BY <1>2, PathInvFacts DEF Written, SameIn
<1>6. PathInv' /\ \E q \in Paths : /\ Tree[q] = Stores!File(Whole(f))
                                   /\ Tree' = [Tree EXCEPT ![q] = Stores!File(Whole(f)')]
    BY <1>2, <1>4, <1>5, FileStep
<1>7. PICK q \in Paths : /\ Tree[q] = Stores!File(Whole(f))
                         /\ Tree' = [Tree EXCEPT ![q] = Stores!File(Whole(f)')]
    BY <1>6
<1>8. Whole(f)' = Stores!Overwrite(Whole(f), n, data)
    BY <1>2, <1>3, WrittenWhole DEF PathInv
<1>9. n = IF start > Len(Whole(f)) THEN Len(Whole(f)) ELSE start
    BY <1>1, <1>3, EachWhole DEF PathInv, IInv, WholeShown, StartAt, Least
<1>10. asked' # None /\ asked'.start = start /\ asked'.data = data
    BY <1>2, NoneAssumption
<1>11. Tree[q].kind = "file" /\ Tree[q].content = Whole(f)
    BY <1>7 DEF Stores!File
<1>12. Tree' = [Tree EXCEPT ![q].content = Stores!Overwrite(@, n, data)]
  <2>1. Stores!File(Whole(f)')
        = [Tree[q] EXCEPT !.content = Stores!Overwrite(Tree[q].content, n, data)]
      BY <1>7, <1>8 DEF Stores!File
  <2>2. QED
      BY <1>7, <2>1
<1>13. Stores!Write(q)
    BY <1>9, <1>10, <1>11, <1>12 DEF Stores!Write
<1>14. QED
    BY <1>6, <1>13

LEMMA TruncateStep ==
    ASSUME PathInv, NEW f \in Inodes, Truncate(f)
    PROVE  PathInv' /\ \E q \in Paths : Stores!Truncate(q)
<1>1. IInv' /\ Emptied(f) /\ asked' = None /\ inode_tab[f].type = "file"
    BY TruncateKeeps DEF PathInv, Truncate
<1>2. IsFile(f) /\ inode_bmap' = inode_bmap /\ SameIn(inode_bmap \ {f})
      /\ inode_tab'[f].type = inode_tab[f].type /\ inode_tab'[f].size = 0
    BY <1>1 DEF Emptied, IsFile
<1>3. PathInv' /\ \E q \in Paths : /\ Tree[q] = Stores!File(Whole(f))
                                   /\ Tree' = [Tree EXCEPT ![q] = Stores!File(Whole(f)')]
    BY <1>1, <1>2, FileStep
<1>4. PICK q \in Paths : /\ Tree[q] = Stores!File(Whole(f))
                         /\ Tree' = [Tree EXCEPT ![q] = Stores!File(Whole(f)')]
    BY <1>3
<1>5. Whole(f)' = << >>
  <2>1. Whole(f)' = [k \in 1 .. 0 |-> CellIn(inode_tab, f, k - 1)']
      BY <1>1, <1>2, EachWholeNext DEF IInv, WholeShown
  <2>2. QED
      BY <2>1
<1>6. Tree[q].kind = "file"
    BY <1>4 DEF Stores!File
<1>7. Tree' = [Tree EXCEPT ![q].content = << >>]
  <2>1. Stores!File(Whole(f)') = [Tree[q] EXCEPT !.content = << >>]
      BY <1>4, <1>5 DEF Stores!File
  <2>2. QED
      BY <1>4, <2>1
<1>8. QED
    BY <1>1, <1>3, <1>6, <1>7 DEF Stores!Truncate

LEMMA FormattedEmpty == Init => PathInv /\ Stores!Init
<1> SUFFICES ASSUME Init
             PROVE  PathInv /\ Stores!Init
    OBVIOUS
<1>1. /\ IInv /\ asked = None /\ inode_bmap = {NoInode, Root}
      /\ inode_tab = [f \in Inodes |-> NewInode(IF f = Root THEN "dir" ELSE "none")]
    BY InitHolds DEF Init
<1>2. \A f \in Inodes : /\ inode_tab[f].type = IF f = Root THEN "dir" ELSE "none"
                        /\ inode_tab[f].size = 0
    BY <1>1 DEF NewInode
<1>3. \A d : \A pos \in Nat : ~Holds(d, pos)
    BY <1>1, <1>2, BlockNumbers DEF Holds
<1>4. TreeInv
    BY <1>2, <1>3, BlockNumbers DEF TreeInv, NoInode, Root
<1>5. Named = {}
    BY <1>1 DEF Named
<1>6. PathInv
    BY <1>1, <1>4, <1>5 DEF PathInv, ReachInv
<1>7. ASSUME NEW p \in Paths
      PROVE  Tree[p] = Stores!Absent
  <2>1. p \in Seq(Names) /\ p # << >>
      BY InPaths
  <2>2. Lookup(p) = NoInode
      BY <1>5, <1>6, <2>1, Found, PathInvFacts
  <2>3. QED
      BY <2>2, TreeShown DEF TreeShows, Object
<1>8. Tree = [p \in Paths |-> Stores!Absent]
  <2>1. Tree = [p \in Paths |-> Tree[p]]
      BY DEF Tree
  <2>2. QED
      BY <1>7, <2>1
<1>9. QED
    BY <1>1, <1>6, <1>8 DEF Stores!Init

LEMMA CallIsStore == PathInv /\ [Next]_vars => PathInv' /\ [Stores!Next]_Stores!storevars
<1> SUFFICES ASSUME PathInv, [Next]_vars
             PROVE  PathInv' /\ [Stores!Next]_Stores!storevars
    OBVIOUS
<1>1. CASE Refused \/ UNCHANGED vars
  <2>1. IInv' /\ inode_bmap' = inode_bmap /\ SameIn(inode_bmap)
      BY <1>1, RefusedKeeps DEF PathInv
  <2>2. PathInv' /\ Tree' = Tree
      BY <2>1, QuietStep
  <2>3. asked' = None \/ asked' = asked
      BY <1>1 DEF Refused, vars
  <2>4. QED
      BY <2>2, <2>3 DEF Stores!Next, Stores!Refuse, Stores!storevars
<1>2. CASE \E dir \in Inodes, name \in Names : KernelCreates(dir, name) \/ Mkdir(dir, name)
  <2>1. PICK dir \in Inodes, name \in Names : KernelCreates(dir, name) \/ Mkdir(dir, name)
      BY <1>2
  <2>2. /\ IsDirectory(dir) /\ DirSearch(dir, name) = NoInode
        /\ \E type \in {"dir", "file"} : AddEntry(dir, name, type)
      BY <2>1 DEF KernelCreates, Create, Mkdir
  <2>3. PathInv' /\ \E q \in Paths : Stores!Create(q) \/ Stores!Mkdir(q)
      BY <2>2, AddStep
  <2>4. QED
      BY <2>3 DEF Stores!Next
<1>3. CASE \E f \in Inodes, count \in 0 .. MaxCount :
              \E start \in 0 .. inode_tab[f].size + 1 :
                 \/ WriteFails(f, start, count)
                 \/ \E data \in [1 .. count -> Data] : Write(f, start, data)
  <2>1. PICK f \in Inodes, count \in 0 .. MaxCount :
              \E start \in 0 .. inode_tab[f].size + 1 :
                 \/ WriteFails(f, start, count)
                 \/ \E data \in [1 .. count -> Data] : Write(f, start, data)
      BY <1>3
  <2>2. inode_tab[f].size \in Nat /\ count \in Nat
      BY <2>1, RecordType, FSAssumption DEF PathInv, IInv
  <2>3. PICK start \in Nat : \/ WriteFails(f, start, count)
                             \/ \E data \in [1 .. count -> Data] : Write(f, start, data)
      BY <2>1, <2>2
  <2>4. CASE WriteFails(f, start, count)
    <3>1. IInv' /\ inode_bmap' = inode_bmap /\ SameIn(inode_bmap)
        BY <2>2, <2>4, WriteFailsKeeps DEF PathInv
    <3>2. PathInv' /\ Tree' = Tree
        BY <3>1, QuietStep
    <3>3. asked' = None
        BY <2>4 DEF WriteFails
    <3>4. QED
        BY <3>2, <3>3 DEF Stores!Next, Stores!Refuse
  <2>5. CASE \E data \in [1 .. count -> Data] : Write(f, start, data)
    <3>1. PICK data \in [1 .. count -> Data] : Write(f, start, data)
        BY <2>5
    <3>2. data \in Seq(Data)
        BY <2>2
    <3>3. PathInv' /\ \E q \in Paths : Stores!Write(q)
        BY <3>1, <3>2, WriteStep
    <3>4. QED
        BY <3>3 DEF Stores!Next
  <2>6. QED
      BY <2>3, <2>4, <2>5
<1>4. CASE \E f \in Inodes : Truncate(f)
  <2>1. PathInv' /\ \E q \in Paths : Stores!Truncate(q)
      BY <1>4, TruncateStep
  <2>2. QED
      BY <2>1 DEF Stores!Next
<1>5. QED
    BY <1>1, <1>2, <1>3, <1>4 DEF Next

(* Every file and directory ever created is found by fs_lookup on some path, which is no longer
   than there are files and directories, and the entries of a directory have different names;
   with EachOnePath the path is the only one (src/sofs/fs.c 280-326, 491-631). *)
THEOREM PathInvariance == Spec => []PathInv
BY FormattedEmpty, CallIsStore, PTL DEF Spec

(* Looked up, created, written and truncated in any order, in a tree of any depth, the file
   system is a store of files (src/include/fs.h 97-214). *)
THEOREM FileStoreCorrect == Spec => IsFileStore
<1>1. Init => Stores!Init
    BY FormattedEmpty
<1>2. PathInv /\ [Next]_vars => [Stores!Next]_Stores!storevars
    BY CallIsStore
<1>3. QED
    BY <1>1, <1>2, PathInvariance, PTL DEF Spec, IsFileStore, Stores!Spec

=============================================================================
