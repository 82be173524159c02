\* One thread writes, both read and dump; two registers in two arrays of three
\* blocks, so that the fourth write meets a flip and so does every later one.
SPECIFICATION Spec
CONSTANTS
    w1 = w1  w2 = w2  r1 = r1  d1 = d1  d2 = d2
    Threads <- WriterAndReader
    WriterThreads <- OneWriter
    num_reg = 2  array_dim = 3  bloco_dim = 3
    Data <- TwoBlocks
    Blank = Blank  None = None
INVARIANTS TypeOK UpToDate OwnBlock FreeBlockInActive
PROPERTIES IsRegisterFile EveryCallReturns
