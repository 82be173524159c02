\* The lock over the mutex sthread.h promises, a clock tick between any two steps.
SPECIFICATION SlicedSpec
CONSTANTS
    t1 = t1  t2 = t2  t3 = t3
    Threads <- ThreeThreads
    NoThread = NoThread
    TimeSlice = TRUE
    Requeue = FALSE
INVARIANTS TypeOK Exclusion Counts NoLostWakeup SomebodyToDispatch IInv
PROPERTIES NoStarvation IsReadersWriter
