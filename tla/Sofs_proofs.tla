---------------------------- MODULE Sofs_proofs ----------------------------
(***************************************************************************)
(* Proofs about Sofs: every answer of the mounted file system is one that  *)
(* a directory of files gives, its offsets modulo 2^32.                    *)
(***************************************************************************)
EXTENDS Sofs, FS_proofs

-----------------------------------------------------------------------------
(* Paths of no name and of one *)

OneNameLookup ==
    /\ Lookup(<< >>) = Root
    /\ \A name : Lookup(<<name>>) = IF IsDirectory(Root) THEN DirSearch(Root, name) ELSE NoInode

LEMMA Lookups == OneNameLookup
<1>1. ASSUME NEW name
      PROVE  Lookup(<<name>>) = IF IsDirectory(Root) THEN DirSearch(Root, name) ELSE NoInode
  <2>1. << >> \in Seq({name}) /\ name \in {name} /\ Append(<< >>, name) = <<name>>
      OBVIOUS
  <2>2. Lookup(Append(<< >>, name))
          = IF IsDirectory(Lookup(<< >>)) THEN DirSearch(Lookup(<< >>), name) ELSE NoInode
      BY <2>1, LookupAppend
  <2>3. QED
      BY <2>1, <2>2, LookupRoot
<1>2. QED
    BY <1>1, LookupRoot DEF OneNameLookup

-----------------------------------------------------------------------------
(* The inductive invariant *)

Entry(pos) == CellIn(inode_tab, Root, pos)

(* There is no directory but the root. *)
OneDirectoryInv == \A f \in inode_bmap :
    inode_tab[f].type = IF f = Root THEN "dir" ELSE IF f = NoInode THEN "none" ELSE "file"

EntriesInv ==
    /\ \A pos \in Nat : pos < inode_tab[Root].size => Entry(pos) \in Entries
    /\ \A pos, p \in Nat : /\ pos < inode_tab[Root].size /\ p < inode_tab[Root].size
                           /\ Entry(pos).name = Entry(p).name
                           => pos = p

(* Every cell of a file has been written. *)
DataInv == \A f \in inode_bmap, pos \in Nat :
    inode_tab[f].type = "file" /\ pos < inode_tab[f].size => CellIn(inode_tab, f, pos) \in Data

DirInv == IInv /\ OneDirectoryInv /\ EntriesInv /\ DataInv

HandlesInv ==
    /\ fh \in [Handles -> Inodes]
    /\ \A h \in Handles : fh[h] # NoInode => IsFile(fh[h])

SInv == DirInv /\ HandlesInv

-----------------------------------------------------------------------------
(* Names and files correspond to each other. *)

LEMMA RootFacts ==
    ASSUME DirInv
    PROVE  /\ TypeOK /\ Root \in inode_bmap /\ Root \in Inodes /\ IsDirectory(Root)
           /\ inode_tab[Root].size \in Nat
           /\ \A pos \in Nat : pos < inode_tab[Root].size =>
                 Entry(pos).inodeid \in Named /\ Entry(pos).name \in Names
<1>1. TypeOK /\ Root \in inode_bmap /\ Root \in Inodes /\ IsDirectory(Root)
    BY BlockNumbers DEF DirInv, IInv, BitmapsInv, OneDirectoryInv, IsDirectory
<1>2. inode_tab[Root].size \in Nat
    BY <1>1, RecordType
<1>3. \A pos \in Nat : pos < inode_tab[Root].size => Holds(Root, pos)
    BY <1>1 DEF Holds, IsDirectory
<1>4. \A pos \in Nat : pos < inode_tab[Root].size =>
        Entry(pos).inodeid \in Named /\ Entry(pos).name \in Names
    BY <1>1, <1>3 DEF DirInv, IInv, NamesInv, InodeAt, Entry, EntriesInv, Entries
<1>5. QED
    BY <1>1, <1>2, <1>4

LEMMA Searched ==
    ASSUME DirInv, NEW name
    PROVE  /\ \A pos \in Nat : pos < inode_tab[Root].size /\ Entry(pos).name = name
                               => DirSearch(Root, name) = Entry(pos).inodeid
           /\ \/ DirSearch(Root, name) = NoInode
              \/ \E pos \in Nat : pos < inode_tab[Root].size /\ Entry(pos).name = name
<1> DEFINE hits == {pos \in 0 .. inode_tab[Root].size - 1 : Entry(pos).name = name}
<1>1. inode_tab[Root].size \in Nat
    BY RootFacts
<1>2. DirSearch(Root, name) = IF hits = {} THEN NoInode
        ELSE Entry(CHOOSE pos \in hits : \A p \in hits : pos <= p).inodeid
    BY DEF DirSearch, Entry
<1>3. \A pos : pos \in hits <=> pos \in Nat /\ pos < inode_tab[Root].size /\ Entry(pos).name = name
    BY <1>1
<1> HIDE DEF hits
<1>4. ASSUME NEW pos \in Nat, pos < inode_tab[Root].size, Entry(pos).name = name
      PROVE  DirSearch(Root, name) = Entry(pos).inodeid
  <2>1. hits = {pos}
      BY <1>3, <1>4 DEF DirInv, EntriesInv
  <2>2. (CHOOSE q \in hits : \A p \in hits : q <= p) = pos
      BY <1>4, <2>1
  <2>3. QED
      BY <1>2, <2>1, <2>2
<1>5. hits # {} => \E pos \in Nat : pos < inode_tab[Root].size /\ Entry(pos).name = name
    BY <1>3
<1>6. QED
    BY <1>2, <1>4, <1>5

Finds ==
    /\ inode_tab[Root].size \in Nat
    /\ \A name : \A pos \in Nat : pos < inode_tab[Root].size /\ Entry(pos).name = name =>
          name \in Names /\ Lookup(<<name>>) = Entry(pos).inodeid /\ IsFile(Lookup(<<name>>))
    /\ \A name : Lookup(<<name>>) # NoInode =>
          \E pos \in Nat : pos < inode_tab[Root].size /\ Entry(pos).name = name
    /\ \A f : IsFile(f) => f # NoInode /\ \E name \in Names : Lookup(<<name>>) = f
    /\ \A m, n : Lookup(<<m>>) # NoInode /\ Lookup(<<m>>) = Lookup(<<n>>) => m = n

LEMMA EachFound == DirInv => Finds
<1> SUFFICES ASSUME DirInv
             PROVE  Finds
    OBVIOUS
<1>1. \A name : Lookup(<<name>>) = DirSearch(Root, name)
    BY RootFacts, Lookups DEF OneNameLookup
<1>2. \A pos \in Nat : pos < inode_tab[Root].size =>
        /\ Entry(pos).name \in Names /\ Lookup(<<Entry(pos).name>>) = Entry(pos).inodeid
        /\ Entry(pos).inodeid \in Named
    BY <1>1, RootFacts, Searched
<1>3. \A f : IsFile(f) <=> f \in Named
  <2>1. Root # NoInode /\ OneDirectoryInv
      BY DEF Root, NoInode, DirInv
  <2>2. QED
      BY <2>1 DEF IsFile, Named, OneDirectoryInv
<1>4. \A name : Lookup(<<name>>) # NoInode =>
        \E pos \in Nat : pos < inode_tab[Root].size /\ Entry(pos).name = name
    BY <1>1, Searched
<1>5. ASSUME NEW f \in Named
      PROVE  \E name \in Names : Lookup(<<name>>) = f
  <2>1. PICK d \in Inodes, pos \in Nat : Holds(d, pos) /\ InodeAt(d, pos) = f
      BY DEF DirInv, IInv, NamesInv
  <2>2. d = Root /\ pos < inode_tab[Root].size
      BY <2>1 DEF Holds, DirInv, OneDirectoryInv
  <2>3. Entry(pos).inodeid = f
      BY <2>1, <2>2 DEF InodeAt, Entry
  <2>4. QED
      BY <1>2, <2>2, <2>3
<1>6. ASSUME NEW m, NEW n, Lookup(<<m>>) # NoInode, Lookup(<<m>>) = Lookup(<<n>>)
      PROVE  m = n
  <2>1. PICK p \in Nat : p < inode_tab[Root].size /\ Entry(p).name = m
      BY <1>4, <1>6
  <2>2. PICK q \in Nat : q < inode_tab[Root].size /\ Entry(q).name = n
      BY <1>4, <1>6
  <2>3. Entry(p).inodeid = Entry(q).inodeid
      BY <1>2, <1>6, <2>1, <2>2
  <2>4. Holds(Root, p) /\ Holds(Root, q) /\ InodeAt(Root, p) = InodeAt(Root, q) /\ Root \in Inodes
      BY <2>1, <2>2, <2>3, RootFacts DEF Holds, InodeAt, Entry, IsDirectory
  <2>5. p = q
      BY <2>4 DEF DirInv, IInv, NamesInv
  <2>6. QED
      BY <2>1, <2>2, <2>5
<1>7. \A f \in Named : f # NoInode
    BY DEF Named
<1>8. QED
    BY <1>2, <1>3, <1>4, <1>5, <1>6, <1>7, RootFacts DEF Finds

LEMMA EachFoundNext == DirInv' => Finds'
BY EachFound, PTL

-----------------------------------------------------------------------------
(* What is shown of a file, and what a step leaves of it *)

Shown(n) ==
    LET f == Lookup(<<n>>)
    IN  IF f = NoInode THEN None ELSE Read(inode_tab, f, 0, inode_tab[f].size)

Content == [n \in Names |-> Shown(n)]

FilesShown ==
    /\ \A f : IsFile(f) =>
          /\ f \in Inodes /\ f # Root /\ inode_tab[f].size \in Nat
          /\ Whole(f) = [k \in 1 .. inode_tab[f].size |-> CellIn(inode_tab, f, k - 1)]
          /\ Whole(f) \in Seq(Data) /\ Len(Whole(f)) = inode_tab[f].size
    /\ \A n : Lookup(<<n>>) # NoInode => n \in Names /\ IsFile(Lookup(<<n>>))
    /\ \A n : Shown(n) = IF Lookup(<<n>>) = NoInode THEN None ELSE Whole(Lookup(<<n>>))
    /\ \A n : Shown(n) = None <=> Lookup(<<n>>) = NoInode

LEMMA EachShown == DirInv => FilesShown
<1> SUFFICES ASSUME DirInv
             PROVE  FilesShown
    OBVIOUS
<1>1. ASSUME NEW f, IsFile(f)
      PROVE  /\ f \in Inodes /\ f # Root /\ inode_tab[f].size \in Nat
             /\ Whole(f) = [k \in 1 .. inode_tab[f].size |-> CellIn(inode_tab, f, k - 1)]
             /\ Whole(f) \in Seq(Data) /\ Len(Whole(f)) = inode_tab[f].size
  <2>1. f \in Inodes /\ f \in inode_bmap /\ inode_tab[f].type = "file" /\ f # Root
      BY <1>1, RootFacts DEF IsFile, TypeOK, IsDirectory
  <2>2. PICK size : size = inode_tab[f].size
      OBVIOUS
  <2>3. size \in Nat
      BY <2>1, <2>2, RootFacts, RecordType
  <2>4. Least(size, size - 0) = size
      BY <2>3 DEF Least
  <2>5. \A k \in 1 .. size : 0 + k - 1 = k - 1 /\ k - 1 \in Nat /\ k - 1 < size
      BY <2>3
  <2>6. Whole(f) = [k \in 1 .. size |-> CellIn(inode_tab, f, k - 1)]
      BY <2>2, <2>4, <2>5 DEF Whole, Read
  <2>7. \A k \in 1 .. size : CellIn(inode_tab, f, k - 1) \in Data
      BY <2>1, <2>2, <2>5 DEF DirInv, DataInv
  <2>8. Whole(f) \in [1 .. size -> Data]
      BY <2>6, <2>7
  <2>9. Whole(f) \in Seq(Data) /\ Len(Whole(f)) = size
      BY <2>3, <2>8
  <2>10. QED
      BY <2>1, <2>2, <2>3, <2>6, <2>9
<1>2. ASSUME NEW n, Lookup(<<n>>) # NoInode
      PROVE  n \in Names /\ IsFile(Lookup(<<n>>))
    BY <1>2, EachFound DEF Finds
<1>3. \A n : Shown(n) = IF Lookup(<<n>>) = NoInode THEN None ELSE Whole(Lookup(<<n>>))
    BY DEF Shown, Whole
<1>4. \A n : Shown(n) = None <=> Lookup(<<n>>) = NoInode
    BY <1>1, <1>2, <1>3, SofsAssumption
<1>5. QED
    BY <1>1, <1>2, <1>3, <1>4 DEF FilesShown

LEMMA EachShownNext == DirInv' => FilesShown'
BY EachShown, PTL

(* A name that is not among the entries that are added is looked up as before. *)
LEMMA LookupKept ==
    ASSUME DirInv, DirInv', inode_tab[Root].size <= inode_tab'[Root].size,
           \A pos \in Nat : pos < inode_tab[Root].size => Entry(pos)' = Entry(pos),
           NEW n,
           \A pos \in Nat : pos < inode_tab'[Root].size /\ ~(pos < inode_tab[Root].size)
                            => Entry(pos)'.name # n
    PROVE  Lookup(<<n>>)' = Lookup(<<n>>)
<1>1. Finds /\ Finds' /\ inode_tab[Root].size \in Nat /\ inode_tab'[Root].size \in Nat
    BY EachFound, EachFoundNext DEF Finds
<1>2. ASSUME NEW pos \in Nat, pos < inode_tab[Root].size, Entry(pos).name = n
      PROVE  Lookup(<<n>>)' = Lookup(<<n>>)
  <2>1. Lookup(<<n>>) = Entry(pos).inodeid
      BY <1>1, <1>2 DEF Finds
  <2>2. pos < inode_tab'[Root].size /\ Entry(pos)' = Entry(pos)
      BY <1>1, <1>2
  <2>3. Lookup(<<n>>)' = Entry(pos)'.inodeid
      BY <1>1, <1>2, <2>2 DEF Finds
  <2>4. QED
      BY <2>1, <2>2, <2>3
<1>3. ASSUME ~(\E pos \in Nat : pos < inode_tab[Root].size /\ Entry(pos).name = n)
      PROVE  Lookup(<<n>>)' = Lookup(<<n>>)
  <2>1. Lookup(<<n>>) = NoInode
      BY <1>1, <1>3 DEF Finds
  <2>2. ~(\E pos \in Nat : pos < inode_tab'[Root].size /\ Entry(pos)'.name = n)
      BY <1>3
  <2>3. Lookup(<<n>>)' = NoInode
      BY <1>1, <2>2 DEF Finds
  <2>4. QED
      BY <2>1, <2>3
<1>4. QED
    BY <1>2, <1>3

(* What is shown under a name stays when the file does. *)
LEMMA ShownKept ==
    ASSUME DirInv, NEW n, Lookup(<<n>>)' = Lookup(<<n>>),
           Lookup(<<n>>) # NoInode => SameIn({Lookup(<<n>>)})
    PROVE  Shown(n)' = Shown(n)
<1>1. CASE Lookup(<<n>>) = NoInode
    BY <1>1 DEF Shown
<1>2. CASE Lookup(<<n>>) # NoInode
  <2>1. PICK f : f = Lookup(<<n>>)
      OBVIOUS
  <2>2. TypeOK /\ f \in Inodes
      BY <1>2, <2>1, EachShown, RootFacts DEF FilesShown
  <2>3. Read(inode_tab, f, 0, inode_tab[f].size)' = Read(inode_tab, f, 0, inode_tab[f].size)
      BY <1>2, <2>1, <2>2, ReadSame DEF SameIn
  <2>4. Shown(n) = Read(inode_tab, f, 0, inode_tab[f].size)
      BY <1>2, <2>1 DEF Shown
  <2>5. Shown(n)' = Read(inode_tab, f, 0, inode_tab[f].size)'
      BY <1>2, <2>1 DEF Shown
  <2>6. QED
      BY <2>3, <2>4, <2>5
<1>3. QED
    BY <1>1, <1>2

-----------------------------------------------------------------------------
(* The steps of the file system, as they are seen from the front end *)

(* Names and files that are there stay there. *)
Stays ==
    /\ DirInv'
    /\ \A f : IsFile(f) => IsFile(f)'
    /\ \A n : Lookup(<<n>>) # NoInode => Lookup(<<n>>)' = Lookup(<<n>>)

(* Names and what they stand for do not change when nothing that is held does. *)
LEMMA KeptStep ==
    ASSUME DirInv, IInv', inode_bmap' = inode_bmap, SameIn(inode_bmap)
    PROVE  Stays /\ Content' = Content
<1>1. /\ \A f \in inode_bmap : /\ inode_tab'[f].type = inode_tab[f].type
                               /\ inode_tab'[f].size = inode_tab[f].size
      /\ \A f \in inode_bmap, pos \in Nat : pos < inode_tab[f].size =>
            CellIn(inode_tab, f, pos)' = CellIn(inode_tab, f, pos)
    BY DEF SameIn
<1>2. /\ inode_tab'[Root].size = inode_tab[Root].size /\ inode_tab[Root].size \in Nat
      /\ \A pos \in Nat : pos < inode_tab[Root].size => Entry(pos)' = Entry(pos)
    BY <1>1, RootFacts DEF Entry
<1>3. OneDirectoryInv'
    BY <1>1 DEF DirInv, OneDirectoryInv
<1>4. EntriesInv'
    BY <1>2 DEF DirInv, EntriesInv
<1>5. DataInv'
    BY <1>1 DEF DirInv, DataInv
<1>6. DirInv'
    BY <1>3, <1>4, <1>5 DEF DirInv
<1>7. \A f : IsFile(f) => IsFile(f)'
    BY <1>1 DEF IsFile
<1>8. ASSUME NEW n
      PROVE  Lookup(<<n>>)' = Lookup(<<n>>)
  <2>1. /\ inode_tab[Root].size <= inode_tab'[Root].size
        /\ \A pos \in Nat : pos < inode_tab'[Root].size /\ ~(pos < inode_tab[Root].size)
                            => Entry(pos)'.name # n
      BY <1>2
  <2>2. QED
      BY <1>2, <1>6, <2>1, LookupKept
<1>9. ASSUME NEW n \in Names
      PROVE  Shown(n)' = Shown(n)
  <2>1. Lookup(<<n>>) # NoInode => Lookup(<<n>>) \in inode_bmap
      BY EachShown DEF FilesShown, IsFile
  <2>2. Lookup(<<n>>) # NoInode => SameIn({Lookup(<<n>>)})
      BY <2>1 DEF SameIn
  <2>3. QED
      BY <1>8, <2>2, ShownKept
<1>10. Content' = Content
    BY <1>9 DEF Content
<1>11. QED
    BY <1>6, <1>7, <1>8, <1>10 DEF Stays

(* A new entry names an empty file. *)
LEMMA AddedStep ==
    ASSUME DirInv, IInv', NEW name \in Names, Lookup(<<name>>) = NoInode,
           NEW i, Added(Root, name, "file", i)
    PROVE  /\ Stays /\ Content' = [Content EXCEPT ![name] = << >>]
           /\ Lookup(<<name>>)' = i /\ IsFile(i)'
<1>a. PICK size : size = inode_tab[Root].size
    OBVIOUS
<1>1. /\ i \in Inodes \ inode_bmap /\ inode_bmap' = inode_bmap \cup {i}
      /\ inode_tab'[i].type = "file" /\ inode_tab'[i].size = 0
      /\ \A f \in inode_bmap : /\ inode_tab'[f].type = inode_tab[f].type
                               /\ f # Root => inode_tab'[f].size = inode_tab[f].size
      /\ inode_tab'[Root].size = size + 1
      /\ \A f \in inode_bmap, pos \in Nat : pos < inode_tab[f].size =>
            CellIn(inode_tab, f, pos)' = CellIn(inode_tab, f, pos)
      /\ \A pos \in Nat : pos = size => Entry(pos)' = [name |-> name, inodeid |-> i]
    BY <1>a DEF Added, Entry
<1>2. /\ size \in Nat /\ Root \in inode_bmap /\ NoInode \in inode_bmap /\ Finds
      /\ \A pos \in Nat : pos < size => Entry(pos)' = Entry(pos)
    BY <1>1, <1>a, RootFacts, EachFound DEF Entry, DirInv, IInv, BitmapsInv
<1>3. \A pos \in Nat : pos < size => Entry(pos).name # name
    BY <1>2, <1>a, RootFacts DEF Finds, IsFile, DirInv, OneDirectoryInv
<1>4. OneDirectoryInv'
    BY <1>1, <1>2 DEF DirInv, OneDirectoryInv
<1>5. EntriesInv'
  <2>1. \A pos \in Nat : pos < inode_tab'[Root].size <=> pos < size \/ pos = size
      BY <1>1, <1>2
  <2>2. \A pos \in Nat : pos < inode_tab'[Root].size => Entry(pos)' \in Entries
      BY <1>1, <1>2, <1>a, <2>1 DEF DirInv, EntriesInv, Entries
  <2>3. ASSUME NEW pos \in Nat, NEW p \in Nat, pos < inode_tab'[Root].size,
               p < inode_tab'[Root].size, Entry(pos)'.name = Entry(p)'.name
        PROVE  pos = p
    <3>1. CASE pos < size /\ p < size
        BY <1>2, <1>a, <2>3, <3>1 DEF DirInv, EntriesInv
    <3>2. CASE pos = size \/ p = size
        BY <1>1, <1>2, <1>3, <2>1, <2>3, <3>2
    <3>3. QED
        BY <2>1, <2>3, <3>1, <3>2
  <2>4. QED
      BY <2>2, <2>3 DEF EntriesInv
<1>6. DataInv'
  <2>1. SUFFICES ASSUME NEW f \in inode_bmap', NEW pos \in Nat, inode_tab'[f].type = "file",
                        pos < inode_tab'[f].size
                 PROVE  CellIn(inode_tab, f, pos)' \in Data
      BY DEF DataInv
  <2>2. f # i
      BY <1>1, <2>1
  <2>3. f \in inode_bmap /\ inode_tab[f].type = "file" /\ f # Root
      BY <1>1, <2>1, <2>2, RootFacts DEF IsDirectory
  <2>4. QED
      BY <1>1, <2>1, <2>3 DEF DirInv, DataInv
<1>7. DirInv' /\ Finds'
    BY <1>4, <1>5, <1>6, EachFoundNext DEF DirInv
<1>8. \A f : IsFile(f) => IsFile(f)'
    BY <1>1 DEF IsFile
<1>9. Lookup(<<name>>)' = i /\ IsFile(i)'
  <2>1. size < inode_tab'[Root].size /\ Entry(size)'.name = name /\ Entry(size)'.inodeid = i
      BY <1>1, <1>2
  <2>2. QED
      BY <1>1, <1>2, <1>7, <2>1 DEF Finds, IsFile
<1>10. \A n : n # name => Lookup(<<n>>)' = Lookup(<<n>>)
  <2>1. SUFFICES ASSUME NEW n, n # name
                 PROVE  Lookup(<<n>>)' = Lookup(<<n>>)
      OBVIOUS
  <2>2. \A pos \in Nat : pos < inode_tab'[Root].size /\ ~(pos < inode_tab[Root].size)
                         => Entry(pos)'.name # n
    <3>1. \A pos \in Nat : pos < size + 1 /\ ~(pos < size) => pos = size
        BY <1>2
    <3>2. QED
        BY <1>1, <1>a, <2>1, <3>1
  <2>3. inode_tab[Root].size <= inode_tab'[Root].size
      BY <1>1, <1>2, <1>a
  <2>4. QED
      BY <1>2, <1>7, <1>a, <2>2, <2>3, LookupKept
<1>11. ASSUME NEW n \in Names, n # name
       PROVE  Shown(n)' = Shown(n)
  <2>1. PICK f : f = Lookup(<<n>>)
      OBVIOUS
  <2>2. f # NoInode => f \in inode_bmap /\ f # Root
      BY <2>1, EachShown DEF FilesShown, IsFile
  <2>3. f # NoInode => SameIn({f})
      BY <1>1, <2>2 DEF SameIn
  <2>4. QED
      BY <1>10, <1>11, <2>1, <2>3, ShownKept
<1>12. Shown(name)' = << >>
  <2>1. FilesShown' /\ i # NoInode
      BY <1>1, <1>2, <1>7, EachShownNext
  <2>2. Shown(name)' = Whole(i)'
      BY <1>9, <2>1 DEF FilesShown
  <2>3. Whole(i)' = [k \in 1 .. 0 |-> CellIn(inode_tab, i, k - 1)']
      BY <1>1, <1>9, <2>1 DEF FilesShown
  <2>4. Whole(i)' = << >>
      BY <2>3
  <2>5. QED
      BY <2>2, <2>4
<1>13. Content' = [Content EXCEPT ![name] = << >>]
    BY <1>11, <1>12 DEF Content
<1>14. \A n : Lookup(<<n>>) # NoInode => Lookup(<<n>>)' = Lookup(<<n>>)
    BY <1>10
<1>15. QED
    BY <1>7, <1>8, <1>9, <1>13, <1>14 DEF Stays

(* A change of file f alone: the names stay, and what is shown under the others. *)
LEMMA OneFileStep ==
    ASSUME DirInv, IInv', inode_bmap' = inode_bmap,
           NEW f, IsFile(f), NEW name \in Names, Lookup(<<name>>) = f,
           inode_tab'[f].type = inode_tab[f].type, SameIn(inode_bmap \ {f}),
           \A pos \in Nat : pos < inode_tab'[f].size => CellIn(inode_tab, f, pos)' \in Data
    PROVE  /\ Stays /\ Lookup(<<name>>)' = f /\ IsFile(f)'
           /\ Content' = [Content EXCEPT ![name] = Whole(f)']
<1>1. /\ Root \in inode_bmap /\ f \in inode_bmap /\ f # Root /\ f # NoInode
      /\ inode_tab[Root].size \in Nat
    BY RootFacts, EachFound DEF IsFile, IsDirectory, Finds
<1>2. /\ \A g \in inode_bmap : inode_tab'[g].type = inode_tab[g].type
      /\ \A g \in inode_bmap \ {f} : inode_tab'[g].size = inode_tab[g].size
      /\ \A g \in inode_bmap \ {f}, pos \in Nat : pos < inode_tab[g].size =>
            CellIn(inode_tab, g, pos)' = CellIn(inode_tab, g, pos)
    BY DEF SameIn
<1>3. /\ inode_tab'[Root].size = inode_tab[Root].size
      /\ \A pos \in Nat : pos < inode_tab[Root].size => Entry(pos)' = Entry(pos)
    BY <1>1, <1>2 DEF Entry
<1>4. OneDirectoryInv'
    BY <1>2 DEF DirInv, OneDirectoryInv
<1>5. EntriesInv'
    BY <1>3 DEF DirInv, EntriesInv
<1>6. DataInv'
  <2>1. SUFFICES ASSUME NEW g \in inode_bmap, NEW pos \in Nat, inode_tab'[g].type = "file",
                        pos < inode_tab'[g].size
                 PROVE  CellIn(inode_tab, g, pos)' \in Data
      BY DEF DataInv
  <2>2. CASE g = f
      BY <2>1, <2>2
  <2>3. CASE g # f
      BY <1>2, <2>1, <2>3 DEF DirInv, DataInv
  <2>4. QED
      BY <2>2, <2>3
<1>7. DirInv'
    BY <1>4, <1>5, <1>6 DEF DirInv
<1>8. \A g : IsFile(g) => IsFile(g)'
    BY <1>2 DEF IsFile
<1>9. ASSUME NEW n
      PROVE  Lookup(<<n>>)' = Lookup(<<n>>)
  <2>1. /\ inode_tab[Root].size <= inode_tab'[Root].size
        /\ \A pos \in Nat : pos < inode_tab'[Root].size /\ ~(pos < inode_tab[Root].size)
                            => Entry(pos)'.name # n
      BY <1>1, <1>3
  <2>2. QED
      BY <1>3, <1>7, <2>1, LookupKept
<1>10. ASSUME NEW n \in Names, n # name
       PROVE  Shown(n)' = Shown(n)
  <2>1. PICK g : g = Lookup(<<n>>)
      OBVIOUS
  <2>2. g # NoInode => g \in inode_bmap \ {f}
      BY <1>1, <1>10, <2>1, EachShown, EachFound DEF FilesShown, Finds, IsFile
  <2>3. g # NoInode => SameIn({g})
      BY <2>2 DEF SameIn
  <2>4. QED
      BY <1>9, <2>1, <2>3, ShownKept
<1>11. Lookup(<<name>>)' = f /\ IsFile(f)'
    BY <1>8, <1>9
<1>12. Shown(name)' = Whole(f)'
    BY <1>1, <1>7, <1>11, EachShownNext DEF FilesShown
<1>13. Content' = [Content EXCEPT ![name] = Whole(f)']
    BY <1>10, <1>12 DEF Content
<1>14. \A n : Lookup(<<n>>) # NoInode => Lookup(<<n>>)' = Lookup(<<n>>)
    BY <1>9
<1>15. QED
    BY <1>7, <1>8, <1>11, <1>13, <1>14 DEF Stays

(* A truncated file is shown empty. *)
LEMMA EmptiedStep ==
    ASSUME DirInv, IInv', NEW f, IsFile(f), NEW name \in Names, Lookup(<<name>>) = f, Emptied(f)
    PROVE  Stays /\ Content' = [Content EXCEPT ![name] = << >>]
<1>1. /\ inode_bmap' = inode_bmap /\ SameIn(inode_bmap \ {f})
      /\ inode_tab'[f].type = inode_tab[f].type /\ inode_tab'[f].size = 0
    BY DEF Emptied
<1>2. \A pos \in Nat : ~(pos < inode_tab'[f].size)
    BY <1>1
<1>3. /\ Stays /\ IsFile(f)' /\ Content' = [Content EXCEPT ![name] = Whole(f)']
    BY <1>1, <1>2, OneFileStep
<1>4. Whole(f)' = [k \in 1 .. 0 |-> CellIn(inode_tab, f, k - 1)']
    BY <1>1, <1>3, EachShownNext DEF Stays, FilesShown
<1>5. Whole(f)' = << >>
    BY <1>4
<1>6. QED
    BY <1>3, <1>5

(* c with data written over it, or behind it, from the cell after the first n on *)
Overwritten(c, n, data) ==
    [k \in 1 .. (IF Len(c) < n + Len(data) THEN n + Len(data) ELSE Len(c)) |->
        IF k > n /\ k <= n + Len(data) THEN data[k - n] ELSE c[k]]

(* What has been written is shown where it was written. *)
LEMMA WrittenStep ==
    ASSUME DirInv, IInv', NEW f, IsFile(f), NEW name \in Names, Lookup(<<name>>) = f,
           NEW n \in Nat, n <= inode_tab[f].size, NEW data \in Seq(Data), Written(f, n, data)
    PROVE  Stays /\ Content' = [Content EXCEPT ![name] = Overwritten(Content[name], n, data)]
<1>a. PICK size : size = inode_tab[f].size
    OBVIOUS
<1>b. PICK c : c = Content[name]
    OBVIOUS
<1>c. PICK new : new = (IF size < n + Len(data) THEN n + Len(data) ELSE size)
    OBVIOUS
<1>1. /\ inode_bmap' = inode_bmap /\ f \in inode_bmap
      /\ \A g \in Inodes : /\ inode_tab'[g].type = inode_tab[g].type
                           /\ g # f => inode_tab'[g].size = inode_tab[g].size
      /\ inode_tab'[f].size = Most(n + Len(data), size)
      /\ \A g \in inode_bmap \ {f}, pos \in Nat : pos < inode_tab[g].size =>
            CellIn(inode_tab, g, pos)' = CellIn(inode_tab, g, pos)
      /\ \A pos \in Nat : pos < inode_tab'[f].size =>
            CellIn(inode_tab, f, pos)' = IF n <= pos /\ pos < n + Len(data)
                                         THEN data[pos - n + 1] ELSE CellIn(inode_tab, f, pos)
    BY <1>a DEF Written, IsFile
<1>2. /\ f \in Inodes /\ size \in Nat /\ Len(c) = size /\ f # NoInode
      /\ c = [k \in 1 .. size |-> CellIn(inode_tab, f, k - 1)]
      /\ inode_bmap \subseteq Inodes
  <2>1. f # NoInode /\ FilesShown /\ c = Shown(name)
      BY <1>b, EachShown, EachFound DEF Finds, Content
  <2>2. c = Whole(f)
      BY <2>1 DEF FilesShown
  <2>3. inode_bmap \subseteq Inodes
      BY RootFacts DEF TypeOK
  <2>4. QED
      BY <1>a, <2>1, <2>2, <2>3 DEF FilesShown
<1>3. Len(data) \in Nat /\ new \in Nat /\ inode_tab'[f].size = new
    BY <1>1, <1>2, <1>c DEF Most
<1>4. ASSUME NEW pos \in Nat, pos < new
      PROVE  CellIn(inode_tab, f, pos)' \in Data
  <2>1. CASE n <= pos /\ pos < n + Len(data)
    <3>1. pos - n + 1 \in 1 .. Len(data)
        BY <1>3, <2>1
    <3>2. data[pos - n + 1] \in Data
        BY <3>1
    <3>3. QED
        BY <1>1, <1>3, <1>4, <2>1, <3>2
  <2>2. CASE ~(n <= pos /\ pos < n + Len(data))
    <3>1. pos < size
        BY <1>2, <1>3, <1>4, <1>a, <1>c, <2>2
    <3>2. CellIn(inode_tab, f, pos) \in Data
        BY <1>1, <1>a, <3>1 DEF DirInv, DataInv, IsFile
    <3>3. QED
        BY <1>1, <1>3, <1>4, <2>2, <3>2
  <2>3. QED
      BY <2>1, <2>2
<1>5. /\ Stays /\ IsFile(f)' /\ Content' = [Content EXCEPT ![name] = Whole(f)']
  <2>1. SameIn(inode_bmap \ {f})
      BY <1>1, <1>2 DEF SameIn
  <2>2. inode_tab'[f].type = inode_tab[f].type
      BY <1>1, <1>2
  <2>3. QED
      BY <1>1, <1>3, <1>4, <2>1, <2>2, OneFileStep
<1>6. Whole(f)' = [k \in 1 .. new |-> CellIn(inode_tab, f, k - 1)']
    BY <1>3, <1>5, EachShownNext DEF Stays, FilesShown
<1>7. ASSUME NEW k \in 1 .. new
      PROVE  CellIn(inode_tab, f, k - 1)' = IF k > n /\ k <= n + Len(data) THEN data[k - n] ELSE c[k]
  <2>1. k - 1 \in Nat /\ k - 1 < new /\ (k - 1) - n + 1 = k - n
      BY <1>3
  <2>2. n <= k - 1 /\ k - 1 < n + Len(data) <=> k > n /\ k <= n + Len(data)
      BY <1>3
  <2>3. ~(k > n /\ k <= n + Len(data)) => k \in 1 .. size
      BY <1>2, <1>3, <1>a, <1>c
  <2>4. k \in 1 .. size => c[k] = CellIn(inode_tab, f, k - 1)
      BY <1>2
  <2>5. QED
      BY <1>1, <1>3, <2>1, <2>2, <2>3, <2>4
<1>8. Whole(f)' = Overwritten(c, n, data)
    BY <1>2, <1>6, <1>7, <1>c DEF Overwritten
<1>9. QED
    BY <1>5, <1>8, <1>b

-----------------------------------------------------------------------------
(* What handles stand for *)

Opened == [h \in Handles |->
    IF fh[h] = NoInode THEN None ELSE CHOOSE n \in Names : Lookup(<<n>>) = fh[h]]

OpenedShown ==
    \A h \in Handles :
        /\ fh[h] = NoInode => Opened[h] = None
        /\ fh[h] # NoInode => /\ Opened[h] # None /\ Opened[h] \in Names
                              /\ Lookup(<<Opened[h]>>) = fh[h]
                              /\ \A n : Lookup(<<n>>) = fh[h] => n = Opened[h]

LEMMA EachOpened == SInv => OpenedShown
<1> SUFFICES ASSUME SInv, NEW h \in Handles
             PROVE  /\ fh[h] = NoInode => Opened[h] = None
                    /\ fh[h] # NoInode => /\ Opened[h] # None /\ Opened[h] \in Names
                                          /\ Lookup(<<Opened[h]>>) = fh[h]
                                          /\ \A n : Lookup(<<n>>) = fh[h] => n = Opened[h]
    BY DEF OpenedShown
<1>1. fh[h] = NoInode => Opened[h] = None
    BY DEF Opened
<1>2. CASE fh[h] # NoInode
  <2>1. \E n \in Names : Lookup(<<n>>) = fh[h]
      BY <1>2, EachFound DEF SInv, HandlesInv, Finds
  <2>2. Opened[h] = CHOOSE n \in Names : Lookup(<<n>>) = fh[h]
      BY <1>2 DEF Opened
  <2>3. Opened[h] \in Names /\ Lookup(<<Opened[h]>>) = fh[h]
      BY <2>1, <2>2
  <2>4. \A n : Lookup(<<n>>) = fh[h] => n = Opened[h]
      BY <1>2, <2>3, EachFound DEF SInv, Finds
  <2>5. Opened[h] # None
      BY <2>3, SofsAssumption
  <2>6. QED
      BY <1>2, <2>3, <2>4, <2>5
<1>3. QED
    BY <1>1, <1>2

LEMMA EachOpenedNext == SInv' => OpenedShown'
BY EachOpened, PTL

(* A handle stands for the same name as long as it is not set. *)
LEMMA HandleKept ==
    ASSUME SInv, SInv', Stays, NEW h \in Handles, fh'[h] = fh[h]
    PROVE  Opened'[h] = Opened[h]
<1>1. PICK n : n = Opened[h]
    OBVIOUS
<1>2. CASE fh[h] = NoInode
    BY <1>2, EachOpened, EachOpenedNext DEF OpenedShown
<1>3. CASE fh[h] # NoInode
  <2>1. Lookup(<<n>>) = fh[h]
      BY <1>1, <1>3, EachOpened DEF OpenedShown
  <2>2. Lookup(<<n>>)' = fh'[h]
      BY <1>3, <2>1 DEF Stays
  <2>3. QED
      BY <1>1, <1>3, <2>2, EachOpenedNext DEF OpenedShown
<1>4. QED
    BY <1>2, <1>3

LEMMA HandlesKept ==
    ASSUME SInv, Stays, fh' = fh
    PROVE  SInv' /\ Opened' = Opened
<1>1. SInv'
    BY DEF SInv, Stays, HandlesInv
<1>2. \A h \in Handles : Opened'[h] = Opened[h]
    BY <1>1, HandleKept
<1>3. Opened' = [h \in Handles |-> Opened'[h]] /\ Opened = [h \in Handles |-> Opened[h]]
    BY DEF Opened
<1>4. QED
    BY <1>1, <1>2, <1>3

(* A handle that is set stands for the name that was looked up, or for none. *)
LEMMA HandleSet ==
    ASSUME SInv, Stays, NEW h \in Handles, NEW f, fh' = [fh EXCEPT ![h] = f], NEW n,
           \/ f = NoInode /\ n = None
           \/ f # NoInode /\ IsFile(f)' /\ Lookup(<<n>>)' = f
    PROVE  SInv' /\ Opened' = [Opened EXCEPT ![h] = n]
<1>1. f \in Inodes
    BY BlockNumbers DEF IsFile, Stays, DirInv, IInv, TypeOK
<1>2. /\ fh' \in [Handles -> Inodes] /\ fh'[h] = f
      /\ \A g \in Handles : g # h => fh'[g] = fh[g]
    BY <1>1 DEF SInv, HandlesInv
<1>3. SInv'
    BY <1>2 DEF SInv, Stays, HandlesInv
<1>4. \A g \in Handles : g # h => Opened'[g] = Opened[g]
    BY <1>2, <1>3, HandleKept
<1>5. Opened'[h] = n
    BY <1>2, <1>3, EachOpenedNext DEF OpenedShown
<1>6. Opened' = [g \in Handles |-> Opened'[g]] /\ Opened = [g \in Handles |-> Opened[g]]
    BY DEF Opened
<1>7. QED
    BY <1>3, <1>4, <1>5, <1>6

-----------------------------------------------------------------------------
(* Every call gives an answer of the directory, and keeps the invariant. *)

(* A call that only answers *)
LEMMA Quiet ==
    ASSUME SInv, Refused \/ UNCHANGED vars
    PROVE  Stays /\ Content' = Content
<1>1. IInv' /\ inode_bmap' = inode_bmap /\ SameIn(inode_bmap)
    BY RefusedKeeps DEF SInv, DirInv
<1>2. QED
    BY <1>1, KeptStep DEF SInv

LEMMA QuietHere ==
    ASSUME SInv, Refused \/ UNCHANGED vars, fh' = fh
    PROVE  SInv' /\ Content' = Content /\ Opened' = Opened
BY Quiet, HandlesKept

LEMMA FilesAre ==
    Mounted!Files = {n \in Names : Content[n] # None}
BY DEF Mounted!Files, Content, Shown

LEMMA GetattrAnswers ==
    ASSUME SInv, NEW path \in SofsPaths, Getattr(path)
    PROVE  SInv' /\ Mounted!Getattr
<1>a. PICK f : f = Lookup(path)
    OBVIOUS
<1>1. SInv' /\ Content' = Content /\ Opened' = Opened
    BY QuietHere DEF Getattr
<1>2. /\ reply'.call = "getattr" /\ reply'.path = path
      /\ reply'.type = IF f = NoInode THEN "none" ELSE inode_tab[f].type
      /\ reply'.type = "file" => reply'.size = inode_tab[f].size
    BY <1>a DEF Getattr, Attrs
<1>3. CASE path = << >>
  <2>1. f = Root /\ Root # NoInode /\ inode_tab[Root].type = "dir"
      BY <1>3, <1>a, Lookups, RootFacts DEF OneNameLookup, SInv, IsDirectory, Root, NoInode
  <2>2. QED
      BY <1>1, <1>2, <1>3, <2>1 DEF Mounted!Getattr, Content, Opened, Shown
<1>4. CASE \E n \in Names : path = <<n>>
  <2>1. PICK n \in Names : path = <<n>>
      BY <1>4
  <2>2. path # << >> /\ path[1] = n
      BY <2>1
  <2>3. /\ Content[n] = None <=> f = NoInode
        /\ f # NoInode => inode_tab[f].type = "file" /\ Len(Content[n]) = inode_tab[f].size
      BY <1>a, <2>1, EachShown DEF SInv, FilesShown, IsFile, Content
  <2>4. n \in Mounted!Files <=> f # NoInode
      BY <2>3, FilesAre
  <2>5. /\ reply'.type = IF reply'.path = << >> THEN "dir"
                         ELSE IF reply'.path[1] \in Mounted!Files THEN "file" ELSE "none"
        /\ reply'.type = "file" => reply'.size = Len(Content[reply'.path[1]])
      BY <1>2, <2>2, <2>3, <2>4
  <2>6. QED
      BY <1>1, <1>2, <2>5 DEF Mounted!Getattr, Content, Opened, Shown
<1>5. QED
    BY <1>3, <1>4 DEF SofsPaths

LEMMA ReaddirAnswers ==
    ASSUME SInv, SofsReaddir
    PROVE  SInv' /\ Mounted!Readdir
<1>a. PICK size : size = inode_tab[Root].size
    OBVIOUS
<1>b. PICK names : names = [k \in 1 .. size |-> Entry(k - 1).name]
    OBVIOUS
<1>1. SInv' /\ Content' = Content /\ Opened' = Opened
    BY QuietHere DEF SofsReaddir
<1>2. size \in Nat /\ inode_tab[Root].type = "dir" /\ Finds /\ FilesShown
    BY <1>a, RootFacts, EachFound, EachShown DEF SInv, IsDirectory
<1>3. reply'.call = "readdir" /\ reply'.entries = names
  <2>1. Attrs(Root).num_entries = size
      BY <1>2, <1>a DEF Attrs
  <2>2. \A k \in 1 .. size : Readdir(Root)[k].name = Entry(k - 1).name
      BY <1>a DEF Readdir, Entry
  <2>3. QED
      BY <1>b, <2>1, <2>2 DEF SofsReaddir
<1>4. \A k \in 1 .. size : k - 1 \in Nat /\ k - 1 < size
    BY <1>2
<1>5. \A k \in 1 .. size : names[k] \in Names /\ Lookup(<<names[k]>>) # NoInode
  <2>1. SUFFICES ASSUME NEW k \in 1 .. size
                 PROVE  names[k] \in Names /\ Lookup(<<names[k]>>) # NoInode
      OBVIOUS
  <2>2. k - 1 \in Nat /\ k - 1 < inode_tab[Root].size /\ Entry(k - 1).name = names[k]
      BY <1>4, <1>a, <1>b
  <2>3. QED
      BY <1>2, <2>2 DEF Finds
<1>6. \A j, k \in 1 .. size : names[j] = names[k] => j = k
  <2>1. SUFFICES ASSUME NEW j \in 1 .. size, NEW k \in 1 .. size, names[j] = names[k]
                 PROVE  j = k
      OBVIOUS
  <2>2. /\ j - 1 \in Nat /\ k - 1 \in Nat /\ j - 1 < inode_tab[Root].size
        /\ k - 1 < inode_tab[Root].size /\ Entry(j - 1).name = Entry(k - 1).name
      BY <1>4, <1>a, <1>b, <2>1
  <2>3. j - 1 = k - 1
      BY <2>2 DEF SInv, DirInv, EntriesInv
  <2>4. QED
      BY <1>2, <2>3
<1>7. \A n \in Names : Content[n] # None <=> \E k \in 1 .. size : names[k] = n
  <2>1. SUFFICES ASSUME NEW n \in Names
                 PROVE  Content[n] # None <=> \E k \in 1 .. size : names[k] = n
      OBVIOUS
  <2>2. Content[n] # None <=> Lookup(<<n>>) # NoInode
      BY <1>2 DEF FilesShown, Content
  <2>3. ASSUME Lookup(<<n>>) # NoInode
        PROVE  \E k \in 1 .. size : names[k] = n
    <3>1. PICK pos \in Nat : pos < size /\ Entry(pos).name = n
        BY <1>2, <1>a, <2>3 DEF Finds
    <3>2. pos + 1 \in 1 .. size /\ (pos + 1) - 1 = pos
        BY <1>2, <3>1
    <3>3. names[pos + 1] = n
        BY <1>b, <3>1, <3>2
    <3>4. QED
        BY <3>2, <3>3
  <2>4. QED
      BY <1>5, <2>2, <2>3
<1>8. PICK files : files = Mounted!Files
    OBVIOUS
<1>9. files = {n \in Names : \E k \in 1 .. size : names[k] = n}
    BY <1>7, <1>8, FilesAre
<1>10. names \in Bijection(1 .. size, files)
    BY <1>5, <1>6, <1>9, <1>b DEF Bijection, Injection, IsInjective, Surjection
<1>11. Cardinality(files) = size
    BY <1>2, <1>10, FS_CountingElements DEF ExistsBijection
<1>12. Len(names) = size /\ DOMAIN names = 1 .. size
  <2>1. names \in [1 .. size -> Names]
      BY <1>5, <1>b
  <2>2. QED
      BY <1>2, <2>1
<1>13. {names[k] : k \in DOMAIN names} = files
    BY <1>5, <1>9, <1>12
<1>14. Mounted!Cardinality(files) = Cardinality(files)
    BY DEF Mounted!Cardinality, Cardinality
<1>15. QED
    BY <1>1, <1>3, <1>8, <1>11, <1>12, <1>13, <1>14 DEF Mounted!Readdir, Content, Opened, Shown

LEMMA CreateAnswers ==
    ASSUME SInv, NEW h \in Handles, NEW name \in Names, SofsCreate(h, name)
    PROVE  SInv' /\ (Mounted!Create(h, name) \/ Mounted!Fail)
<1>1. CASE /\ KernelCreates(Root, name) /\ fh' = [fh EXCEPT ![h] = FreeInode]
           /\ reply' = [call |-> "create", handle |-> h, name |-> name, ok |-> TRUE]
  <2>1. PICK i : i = FreeInode
      OBVIOUS
  <2>2. IsDirectory(Root) /\ DirSearch(Root, name) = NoInode /\ AddEntry(Root, name, "file")
      BY <1>1 DEF KernelCreates, Create
  <2>3. Lookup(<<name>>) = NoInode
      BY <2>2, Lookups DEF OneNameLookup
  <2>4. IInv' /\ Added(Root, name, "file", i)
      BY <2>1, <2>2, AddKeeps DEF SInv, DirInv
  <2>5. /\ Stays /\ Content' = [Content EXCEPT ![name] = << >>]
        /\ Lookup(<<name>>)' = i /\ IsFile(i)'
      BY <2>3, <2>4, AddedStep DEF SInv
  <2>6. i # NoInode
      BY <2>4 DEF Added, SInv, DirInv, IInv, BitmapsInv
  <2>7. SInv' /\ Opened' = [Opened EXCEPT ![h] = name]
      BY <1>1, <2>1, <2>5, <2>6, HandleSet
  <2>8. Opened[h] = None
      BY EachOpened DEF SofsCreate, OpenedShown
  <2>9. name \notin Mounted!Files
      BY <2>3, EachShown, FilesAre DEF SInv, FilesShown, Content
  <2>10. Mounted!Create(h, name)
      BY <1>1, <2>5, <2>7, <2>8, <2>9 DEF Mounted!Create, Content, Opened, Shown
  <2>11. QED
      BY <2>7, <2>10
<1>2. CASE /\ ~RoomForEntry(Root) /\ Refused /\ fh' = fh
           /\ reply' = [call |-> "create", handle |-> h, name |-> name, ok |-> FALSE]
  <2>1. SInv' /\ Content' = Content /\ Opened' = Opened
      BY <1>2, QuietHere
  <2>2. Mounted!Fail
      BY <1>2, <2>1 DEF Mounted!Fail, Content, Opened, Shown
  <2>3. QED
      BY <2>1, <2>2
<1>3. QED
    BY <1>1, <1>2 DEF SofsCreate

LEMMA OpenAnswers ==
    ASSUME SInv, NEW h \in Handles, NEW name \in Names, Open(h, name)
    PROVE  SInv' /\ (Mounted!Open(h, name) \/ Mounted!Fail)
<1>a. PICK f : f = Lookup(<<name>>)
    OBVIOUS
<1>1. /\ fh[h] = NoInode /\ fh' = [fh EXCEPT ![h] = f] /\ Refused
      /\ reply' = [call |-> "open", handle |-> h, name |-> name, ok |-> f # NoInode]
    BY <1>a DEF Open
<1>2. Stays /\ Content' = Content
    BY <1>1, Quiet
<1>3. name \in Mounted!Files <=> f # NoInode
    BY <1>a, EachShown, FilesAre DEF SInv, FilesShown, Content
<1>4. Opened[h] = None
    BY <1>1, EachOpened DEF OpenedShown
<1>5. CASE f # NoInode
  <2>1. Lookup(<<name>>)' = f /\ IsFile(f)'
      BY <1>2, <1>5, <1>a, EachShown DEF SInv, FilesShown, Stays
  <2>2. SInv' /\ Opened' = [Opened EXCEPT ![h] = name]
      BY <1>1, <1>2, <1>5, <2>1, HandleSet
  <2>3. reply' = [call |-> "open", handle |-> h, name |-> name, ok |-> TRUE]
      BY <1>1, <1>5
  <2>4. Mounted!Open(h, name)
      BY <1>2, <1>3, <1>4, <1>5, <2>2, <2>3 DEF Mounted!Open, Content, Opened, Shown
  <2>5. QED
      BY <2>2, <2>4
<1>6. CASE f = NoInode
  <2>1. fh' = fh
      BY <1>1, <1>6 DEF SInv, HandlesInv
  <2>2. SInv' /\ Opened' = Opened
      BY <1>2, <2>1, HandlesKept
  <2>3. Mounted!Fail
      BY <1>1, <1>2, <1>3, <1>6, <2>2 DEF Mounted!Fail, Content, Opened, Shown
  <2>4. QED
      BY <2>2, <2>3
<1>7. QED
    BY <1>5, <1>6

(* What an open handle stands for *)
LEMMA OpenFile ==
    ASSUME SInv, NEW h \in Handles, fh[h] # NoInode
    PROVE  /\ IsFile(fh[h]) /\ fh[h] \in Inodes /\ inode_tab[fh[h]].size \in Nat
           /\ Opened[h] # None /\ Opened[h] \in Names /\ Lookup(<<Opened[h]>>) = fh[h]
           /\ Content[Opened[h]] = Whole(fh[h])
           /\ Len(Content[Opened[h]]) = inode_tab[fh[h]].size
<1>1. /\ IsFile(fh[h]) /\ FilesShown
      /\ Opened[h] # None /\ Opened[h] \in Names /\ Lookup(<<Opened[h]>>) = fh[h]
    BY EachOpened, EachShown DEF SInv, HandlesInv, OpenedShown
<1>2. PICK n : n = Opened[h]
    OBVIOUS
<1>3. Content[n] = Whole(fh[h])
    BY <1>1, <1>2 DEF FilesShown, Content
<1>4. QED
    BY <1>1, <1>2, <1>3 DEF FilesShown

LEMMA UnsignedNat == \A offset \in Nat : offset % UINT_RANGE \in Nat
BY SofsAssumption

LEMMA ReadAnswers ==
    ASSUME SInv, NEW h \in Handles, NEW offset \in Nat, NEW count \in Nat, SofsRead(h, offset, count)
    PROVE  SInv' /\ Mounted!Read(h)
<1>a. PICK f : f = fh[h]
    OBVIOUS
<1>b. PICK c : c = Content[Opened[h]]
    OBVIOUS
<1>c. PICK size : size = inode_tab[f].size
    OBVIOUS
<1>d. PICK start \in Nat : start = offset % UINT_RANGE
    BY UnsignedNat
<1>1. SInv' /\ Content' = Content /\ Opened' = Opened
    BY QuietHere DEF SofsRead
<1>2. /\ IsFile(f) /\ f # NoInode
      /\ reply' = [call |-> "read", handle |-> h, start |-> offset, count |-> count,
                   data |-> Read(inode_tab, f, start, count)]
    BY <1>a, <1>d, EachFound DEF SofsRead, Unsigned, SInv, Finds
<1>3. Opened[h] # None /\ size \in Nat /\ Len(c) = size /\ c = Whole(f)
    BY <1>2, <1>a, <1>b, <1>c, OpenFile
<1>4. c = [k \in 1 .. size |-> CellIn(inode_tab, f, k - 1)]
    BY <1>2, <1>3, <1>c, EachShown DEF SInv, FilesShown
<1>5. PICK end : end = IF start + count < Len(c) THEN start + count ELSE Len(c)
    OBVIOUS
<1>6. PICK n : n = IF start < end THEN end - start ELSE 0
    OBVIOUS
<1>7. 1 .. Least(count, size - start) = 1 .. n
    BY <1>3, <1>5, <1>6 DEF Least
<1>8. \A k \in 1 .. n : CellIn(inode_tab, f, start + k - 1) = c[start + k]
  <2>1. \A k \in 1 .. n : start + k \in 1 .. size /\ (start + k) - 1 = start + k - 1
      BY <1>3, <1>5, <1>6
  <2>2. QED
      BY <1>4, <2>1
<1>9. Read(inode_tab, f, start, count) = [k \in 1 .. n |-> c[start + k]]
  <2>1. Read(inode_tab, f, start, count) = [k \in 1 .. n |-> CellIn(inode_tab, f, start + k - 1)]
      BY <1>7, <1>c DEF Read
  <2>2. QED
      BY <1>8, <2>1
<1>10. /\ reply'.call = "read" /\ reply'.handle = h
       /\ LET cc == Content[Opened[h]]
              from == reply'.start % UINT_RANGE
              last == IF from + reply'.count < Len(cc) THEN from + reply'.count ELSE Len(cc)
          IN  reply'.data = [k \in 1 .. (IF from < last THEN last - from ELSE 0) |-> cc[from + k]]
    BY <1>2, <1>5, <1>6, <1>9, <1>b, <1>d
<1>11. QED
    BY <1>1, <1>3, <1>10 DEF Mounted!Read, Content, Opened, Shown

LEMMA WriteAnswers ==
    ASSUME SInv, NEW h \in Handles, NEW offset \in Nat, NEW data \in Seq(Data),
           SofsWrite(h, offset, data)
    PROVE  SInv' /\ (Mounted!Write(h) \/ Mounted!Fail)
<1>a. PICK f : f = fh[h]
    OBVIOUS
<1>d. PICK start \in Nat : start = offset % UINT_RANGE
    BY UnsignedNat
<1>b. PICK n : n = StartAt(f, start)
    OBVIOUS
<1>c. PICK c : c = Content[Opened[h]]
    OBVIOUS
<1>1. fh[h] # NoInode /\ fh' = fh
    BY DEF SofsWrite
<1>2. /\ IsFile(f) /\ f \in Inodes /\ inode_tab[f].size \in Nat /\ Len(c) = inode_tab[f].size
      /\ Opened[h] # None /\ Opened[h] \in Names /\ Lookup(<<Opened[h]>>) = f
    BY <1>1, <1>a, <1>c, OpenFile
<1>3. PICK ok \in BOOLEAN :
        /\ reply' = [call |-> "write", handle |-> h, start |-> offset, data |-> data, ok |-> ok]
        /\ \/ ok /\ Write(f, start, data)
           \/ ~ok /\ WriteFails(f, start, Len(data))
           \/ ~ok /\ Refused
    BY <1>a, <1>d DEF SofsWrite, Unsigned
<1>4. CASE ok /\ Write(f, start, data)
  <2>1. n \in Nat /\ n <= inode_tab[f].size /\ n = IF start > Len(c) THEN Len(c) ELSE start
      BY <1>2, <1>b DEF StartAt, Least
  <2>2. IInv' /\ Written(f, n, data)
      BY <1>2, <1>4, <1>b, WriteKeeps DEF SInv, DirInv
  <2>3. PICK name : name = Opened[h]
      OBVIOUS
  <2>4. Stays /\ Content' = [Content EXCEPT ![name] = Overwritten(Content[name], n, data)]
      BY <1>2, <2>1, <2>2, <2>3, WrittenStep DEF SInv
  <2>5. SInv' /\ Opened' = Opened
      BY <1>1, <2>4, HandlesKept
  <2>6. /\ reply'.call = "write" /\ reply'.handle = h /\ reply'.ok
        /\ reply'.start % UINT_RANGE = start /\ reply'.data = data
      BY <1>3, <1>4, <1>d
  <2>7. /\ reply'.call = "write" /\ reply'.handle = h /\ reply'.ok
        /\ LET cc == Content[Opened[h]]
               from == reply'.start % UINT_RANGE
               m == IF from > Len(cc) THEN Len(cc) ELSE from
               d == reply'.data
           IN  Content' = [Content EXCEPT ![Opened[h]] =
                  [k \in 1 .. (IF Len(cc) < m + Len(d) THEN m + Len(d) ELSE Len(cc)) |->
                      IF k > m /\ k <= m + Len(d) THEN d[k - m] ELSE cc[k]]]
      BY <1>c, <2>1, <2>3, <2>4, <2>6 DEF Overwritten
  <2>8. Mounted!Write(h)
      BY <1>2, <2>5, <2>7 DEF Mounted!Write, Content, Opened, Shown
  <2>9. QED
      BY <2>5, <2>8
<1>5. CASE ~ok /\ (WriteFails(f, start, Len(data)) \/ Refused)
  <2>1. Stays /\ Content' = Content
    <3>1. CASE WriteFails(f, start, Len(data))
      <4>1. IInv' /\ inode_bmap' = inode_bmap /\ SameIn(inode_bmap)
          BY <1>2, <3>1, WriteFailsKeeps DEF SInv, DirInv
      <4>2. QED
          BY <4>1, KeptStep DEF SInv
    <3>2. CASE Refused
        BY <3>2, Quiet
    <3>3. QED
        BY <1>5, <3>1, <3>2
  <2>2. SInv' /\ Opened' = Opened
      BY <1>1, <2>1, HandlesKept
  <2>3. reply'.call = "write" /\ ~reply'.ok
      BY <1>3, <1>5
  <2>4. Mounted!Fail
      BY <2>1, <2>2, <2>3 DEF Mounted!Fail, Content, Opened, Shown
  <2>5. QED
      BY <2>2, <2>4
<1>6. QED
    BY <1>3, <1>4, <1>5

LEMMA TruncateAnswers ==
    ASSUME SInv, NEW name \in Names, SofsTruncate(name)
    PROVE  SInv' /\ (Mounted!Truncate(name) \/ Mounted!Fail)
<1>a. PICK f : f = Lookup(<<name>>)
    OBVIOUS
<1>1. /\ reply' = [call |-> "truncate", name |-> name, ok |-> f # NoInode]
      /\ IF f # NoInode THEN Truncate(f) ELSE Refused
      /\ fh' = fh
    BY <1>a DEF SofsTruncate
<1>2. name \in Mounted!Files <=> f # NoInode
    BY <1>a, EachShown, FilesAre DEF SInv, FilesShown, Content
<1>3. CASE f # NoInode
  <2>1. IsFile(f) /\ f \in Inodes
      BY <1>3, <1>a, EachShown DEF SInv, FilesShown
  <2>2. IInv' /\ Emptied(f)
      BY <1>1, <1>3, <2>1, TruncateKeeps DEF SInv, DirInv
  <2>3. Stays /\ Content' = [Content EXCEPT ![name] = << >>]
      BY <1>a, <2>1, <2>2, EmptiedStep DEF SInv
  <2>4. SInv' /\ Opened' = Opened
      BY <1>1, <2>3, HandlesKept
  <2>5. reply' = [call |-> "truncate", name |-> name, ok |-> TRUE]
      BY <1>1, <1>3
  <2>6. Mounted!Truncate(name)
      BY <1>2, <1>3, <2>3, <2>4, <2>5 DEF Mounted!Truncate, Content, Opened, Shown
  <2>7. QED
      BY <2>4, <2>6
<1>4. CASE f = NoInode
  <2>1. SInv' /\ Content' = Content /\ Opened' = Opened
      BY <1>1, <1>4, QuietHere
  <2>2. /\ reply'.call = "truncate" /\ ~reply'.ok /\ reply'.name = name
      BY <1>1, <1>4
  <2>3. Mounted!Fail
      BY <1>2, <1>4, <2>1, <2>2 DEF Mounted!Fail, Content, Opened, Shown
  <2>4. QED
      BY <2>1, <2>3
<1>5. QED
    BY <1>3, <1>4

LEMMA ReleaseAnswers ==
    ASSUME SInv, NEW h \in Handles, Release(h)
    PROVE  SInv' /\ Mounted!Release(h)
<1>1. fh' = [fh EXCEPT ![h] = NoInode] /\ reply' = [call |-> "release"] /\ Refused
    BY DEF Release
<1>2. Stays /\ Content' = Content
    BY <1>1, Quiet
<1>3. SInv' /\ Opened' = [Opened EXCEPT ![h] = None]
    BY <1>1, <1>2, HandleSet
<1>4. QED
    BY <1>1, <1>2, <1>3 DEF Mounted!Release, Content, Opened, Shown

LEMMA AcceptedAnswers ==
    ASSUME SInv, Accepted
    PROVE  SInv' /\ Mounted!Accept
<1>1. SInv' /\ Content' = Content /\ Opened' = Opened
    BY QuietHere DEF Accepted
<1>2. QED
    BY <1>1 DEF Accepted, Mounted!Accept, Content, Opened, Shown

(* A long name is no file's. *)
LEMMA TooLongAnswers ==
    ASSUME SInv, NEW h \in Handles, NEW name \in LongNames, TooLong(h, name)
    PROVE  SInv' /\ Mounted!Fail
<1>1. SInv' /\ Content' = Content /\ Opened' = Opened
    BY QuietHere DEF TooLong
<1>2. name \notin Mounted!Files
    BY SofsAssumption DEF Mounted!Files
<1>3. /\ reply'.call \in {"create", "open", "truncate"} /\ ~reply'.ok
      /\ reply'.name = name
    BY DEF TooLong
<1>4. QED
    BY <1>1, <1>2, <1>3 DEF Mounted!Fail, Content, Opened, Shown

LEMMA OverrunKeeps ==
    ASSUME SInv, Overrun
    PROVE  SInv' /\ UNCHANGED Mounted!dirvars
<1>1. SInv' /\ Content' = Content /\ Opened' = Opened
    BY QuietHere DEF Overrun
<1>2. QED
    BY <1>1 DEF Overrun, Mounted!dirvars, Content, Opened, Shown

LEMMA Stutters ==
    ASSUME SInv, UNCHANGED sofsvars
    PROVE  SInv' /\ UNCHANGED Mounted!dirvars
<1>1. SInv' /\ Content' = Content /\ Opened' = Opened
    BY QuietHere DEF sofsvars
<1>2. QED
    BY <1>1 DEF sofsvars, Mounted!dirvars, Content, Opened, Shown

-----------------------------------------------------------------------------
(* The theorems *)

LEMMA SofsInitHolds == SofsInit => SInv /\ Mounted!Init
<1> SUFFICES ASSUME SofsInit
             PROVE  SInv /\ Mounted!Init
    OBVIOUS
<1>1. /\ IInv /\ inode_bmap = {NoInode, Root}
      /\ inode_tab = [f \in Inodes |-> NewInode(IF f = Root THEN "dir" ELSE "none")]
      /\ fh = [h \in Handles |-> NoInode] /\ reply = [call |-> "mount"]
    BY InitHolds DEF SofsInit, Init
<1>2. \A f \in Inodes : /\ inode_tab[f].size = 0
                        /\ inode_tab[f].type = IF f = Root THEN "dir" ELSE "none"
    BY <1>1 DEF NewInode
<1>3. \A f \in inode_bmap : f \in Inodes /\ (f = Root \/ f = NoInode)
    BY <1>1, BlockNumbers
<1>4. OneDirectoryInv
    BY <1>2, <1>3 DEF OneDirectoryInv
<1>5. EntriesInv /\ DataInv
    BY <1>2, <1>3, BlockNumbers DEF EntriesInv, DataInv
<1>6. HandlesInv
    BY <1>1, BlockNumbers DEF HandlesInv
<1>7. SInv
    BY <1>1, <1>4, <1>5, <1>6 DEF SInv, DirInv
<1>8. Content = [n \in Names |-> None]
  <2>1. \A n : Lookup(<<n>>) = NoInode
    <3>1. \A pos \in Nat : ~(pos < inode_tab[Root].size)
        BY <1>2, BlockNumbers
    <3>2. Finds
        BY <1>7, EachFound DEF SInv
    <3>3. QED
        BY <3>1, <3>2, Zenon DEF Finds
  <2>2. QED
      BY <2>1 DEF Content, Shown
<1>9. Opened = [h \in Handles |-> None]
    BY <1>1 DEF Opened
<1>10. QED
    BY <1>1, <1>7, <1>8, <1>9 DEF Mounted!Init, Content, Opened, Shown

LEMMA SofsStep == SInv /\ [SofsNext]_sofsvars => SInv' /\ [Mounted!Next]_Mounted!dirvars
<1> SUFFICES ASSUME SInv, [SofsNext]_sofsvars
             PROVE  SInv' /\ [Mounted!Next]_Mounted!dirvars
    OBVIOUS
<1>1. CASE UNCHANGED sofsvars
    BY <1>1, Stutters
<1>2. CASE \E path \in SofsPaths : Getattr(path)
    BY <1>2, GetattrAnswers DEF Mounted!Next
<1>3. CASE SofsReaddir
    BY <1>3, ReaddirAnswers DEF Mounted!Next
<1>4. CASE \E n \in Names : SofsTruncate(n)
    BY <1>4, TruncateAnswers DEF Mounted!Next
<1>5. CASE \E h \in Handles, n \in Names : SofsCreate(h, n) \/ Open(h, n)
    BY <1>5, CreateAnswers, OpenAnswers DEF Mounted!Next
<1>6. CASE \E h \in Handles : \E offset \in Offsets(h) :
              \/ \E size \in 1 .. MaxCount : SofsRead(h, offset, size)
              \/ \E buf \in UNION {[1 .. n -> Data] : n \in 1 .. MaxCount} :
                    SofsWrite(h, offset, buf)
  <2>1. PICK h \in Handles : \E offset \in Offsets(h) :
              \/ \E size \in 1 .. MaxCount : SofsRead(h, offset, size)
              \/ \E buf \in UNION {[1 .. n -> Data] : n \in 1 .. MaxCount} :
                    SofsWrite(h, offset, buf)
      BY <1>6
  <2>2. inode_tab[fh[h]].size \in Nat
      BY RecordType DEF SInv, DirInv, IInv, HandlesInv
  <2>3. PICK offset \in Nat :
              \/ \E size \in 1 .. MaxCount : SofsRead(h, offset, size)
              \/ \E buf \in UNION {[1 .. n -> Data] : n \in 1 .. MaxCount} :
                    SofsWrite(h, offset, buf)
      BY <2>1, <2>2, SofsAssumption DEF Offsets
  <2>4. ASSUME NEW size \in 1 .. MaxCount, SofsRead(h, offset, size)
        PROVE  SInv' /\ Mounted!Next
    <3>1. size \in Nat
        BY FSAssumption
    <3>2. QED
        BY <2>3, <2>4, <3>1, ReadAnswers DEF Mounted!Next
  <2>5. ASSUME NEW buf \in UNION {[1 .. n -> Data] : n \in 1 .. MaxCount},
               SofsWrite(h, offset, buf)
        PROVE  SInv' /\ Mounted!Next
    <3>1. buf \in Seq(Data)
        BY FSAssumption
    <3>2. QED
        BY <2>3, <2>5, <3>1, WriteAnswers DEF Mounted!Next
  <2>6. QED
      BY <2>3, <2>4, <2>5
<1>7. CASE \E h \in Handles : Release(h)
    BY <1>7, ReleaseAnswers DEF Mounted!Next
<1>8. CASE Accepted
    BY <1>8, AcceptedAnswers DEF Mounted!Next
<1>9. CASE \E h \in Handles, n \in LongNames : TooLong(h, n)
    BY <1>9, TooLongAnswers DEF Mounted!Next
<1>10. CASE Overrun
    BY <1>10, OverrunKeeps
<1>11. QED
    BY <1>1, <1>2, <1>3, <1>4, <1>5, <1>6, <1>7, <1>8, <1>9, <1>10 DEF SofsNext

(* In every state names and files correspond to each other, there is no directory but the
   root, every cell of a file has been written, and an open handle is one of a file. *)
THEOREM SofsInvariance == SofsSpec => []SInv
<1>1. SofsInit => SInv
    BY SofsInitHolds
<1>2. SInv /\ [SofsNext]_sofsvars => SInv'
    BY SofsStep
<1>3. QED
    BY <1>1, <1>2, PTL DEF SofsSpec

(* What the kernel holds is the inode of a file that exists (sofs_open, sofs_create). *)
THEOREM SofsTypeCorrect == SofsSpec => []SofsTypeOK
<1> DEFINE MemoryOK == memory \in {"whole", "undefined"}
<1>1. SInv /\ MemoryOK => SofsTypeOK
    BY DEF SInv, DirInv, IInv, HandlesInv, SofsTypeOK
<1>2. SofsInit => MemoryOK
    BY DEF SofsInit
<1>3. MemoryOK /\ [SofsNext]_sofsvars => MemoryOK'
  <2>1. SofsNext => memory' \in {memory, "undefined"}
      BY DEF SofsNext, Getattr, SofsReaddir, SofsTruncate, SofsCreate, Open, TooLong, SofsRead,
             SofsWrite, Release, Accepted, Overrun
  <2>2. QED
      BY <2>1 DEF sofsvars
<1>4. QED
    BY <1>1, <1>2, <1>3, SofsInvariance, PTL DEF SofsSpec

(* Every answer of the front end, until a copy of a path overruns its buffer, is the one
   that a directory of files gives where offsets count modulo the range of an unsigned:
   whatever the blocks that the files had before, and for disks and inodes of any size. *)
THEOREM OneDirectoryCorrect == SofsSpec => IsOneDirectory
<1>1. SofsInit => Mounted!Init
    BY SofsInitHolds
<1>2. SInv /\ [SofsNext]_sofsvars => [Mounted!Next]_Mounted!dirvars
    BY SofsStep
<1>3. QED
    BY <1>1, <1>2, SofsInvariance, PTL DEF SofsSpec, IsOneDirectory, Mounted!Spec

=============================================================================
