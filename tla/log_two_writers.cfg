\* Two threads inside logrw_write, which the lock's read side lets in together.
SPECIFICATION SafetySpec
CONSTANTS
    w1 = w1  w2 = w2  r1 = r1  d1 = d1  d2 = d2
    Threads <- TwoWriters
    WriterThreads <- TwoWriters
    num_reg = 2  array_dim = 4  bloco_dim = 4
    Data <- TwoBlocks
    Blank = Blank  None = None
INVARIANT OwnBlock
