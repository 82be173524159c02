\* The code as it is, built with DISABLE_TIME_SLICE: the clients give way to each other.
SPECIFICATION CoopSpec
CONSTANTS
    t1 = t1  t2 = t2  t3 = t3
    Threads <- ThreeThreads
    NoThread = NoThread
    TimeSlice = FALSE
    Requeue = TRUE
INVARIANT NeverContended
PROPERTIES IsReadersWriter
