\* A sleeping thread, and two that run.
SPECIFICATION SafetySpec
CONSTANTS
    main = main  t1 = t1  t2 = t2
    Threads <- ThreeThreads
    Main = main
    NoThread = NoThread
    YieldAfter = 2
    MaxSleep = 2
    MaxHandlers = 1
\* The program ends by exit(0).
CHECK_DEADLOCK FALSE
INVARIANT NotPassedOver
