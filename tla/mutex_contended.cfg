\* The code as it is, with time slices: a contended mutex_lock returns without the lock.
SPECIFICATION SafetySpec
CONSTANTS
    t1 = t1  t2 = t2  t3 = t3
    Threads <- ThreeThreads
    NoThread = NoThread
    TimeSlice = TRUE
    Requeue = TRUE
INVARIANT MutexExclusion
