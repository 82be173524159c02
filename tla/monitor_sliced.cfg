\* Three clients of one monitor, a clock tick between any two steps, and the mutex of the
\* code. The program may stop: it crashes when all clients wait.
SPECIFICATION Spec
CONSTANTS
    t1 = t1  t2 = t2  t3 = t3
    Threads <- ThreeThreads
    NoThread = NoThread
    TimeSlice = TRUE
    Requeue = TRUE
    MaxRequeues = 1
INVARIANTS TypeOK OneInside Accounted CrashOnlyWhenAllWait
PROPERTIES EnterReturns
CHECK_DEADLOCK FALSE
