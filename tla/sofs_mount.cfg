\* Inodes for two of three files, whose entries need two blocks of one cell, and four data
\* blocks for those entries and for the files; two handles, on the same file or on two.
SPECIFICATION SofsSpec
CONSTANTS
    n1 = n1  n2 = n2  n3 = n3  long = long  d1 = d1  d2 = d2  h1 = h1  h2 = h2
    Names <- ThreeNames
    LongNames <- OneLongName
    Data <- TwoCells
    Handles <- TwoHandles
    Junk = Junk  None = None
    BLOCK_SIZE = 1  INODE_NUM_BLKS = 2
    ITAB_SIZE = 4  ITAB_NUM_BLKS = 1
    NUM_BLOCKS = 7
    MaxCount = 2
    UINT_RANGE = 16
\* With its memory undefined the program may do anything, or stop.
CHECK_DEADLOCK FALSE
INVARIANT SofsTypeOK
PROPERTY IsOneDirectory
SYMMETRY Symmetry
VIEW View
