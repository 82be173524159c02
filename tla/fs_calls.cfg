\* Two objects besides the root, blocks of two cells, three data blocks: enough for
\* one file of full length, or two that get in each other's way.
SPECIFICATION Spec
CONSTANTS
    n1 = n1  n2 = n2  d1 = d1  d2 = d2
    Names <- TwoNames
    Data <- TwoCells
    Junk = Junk  None = None
    BLOCK_SIZE = 2  INODE_NUM_BLKS = 2
    ITAB_SIZE = 4  ITAB_NUM_BLKS = 1
    NUM_BLOCKS = 6
    MaxCount = 3
INVARIANTS TypeOK OwnedOnce OneName ImageCurrent
PROPERTIES IsFileStore
SYMMETRY Symmetry
VIEW View
