\* Two threads inside logrw_write together, and arrays of one block for the one register, which
\* logrw_init(1, 2, 1) makes: a flip fills the new array and leaves nothing for the write
\* that asked for it.
SPECIFICATION Spec
CONSTANTS
    w1 = w1  w2 = w2  r1 = r1  d1 = d1  d2 = d2
    Threads <- TwoWriters
    WriterThreads <- TwoWriters
    num_reg = 1  array_dim = 2  bloco_dim = 1
    Data <- OneBlock
    Blank = Blank  None = None
PROPERTIES EveryCallReturns
