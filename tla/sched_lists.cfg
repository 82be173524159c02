\* Three threads that create, join, sleep and exit in any order under the clock.
SPECIFICATION Spec
CONSTANTS
    main = main  t1 = t1  t2 = t2
    Threads <- ThreeThreads
    Main = main
    NoThread = NoThread
    YieldAfter = 2
    MaxSleep = 1
    MaxHandlers = 2
\* The program ends by exit(0).
CHECK_DEADLOCK FALSE
INVARIANTS TypeOK OnePlace JoinersWaitForLiving JoinMeansTerminated
PROPERTIES EveryoneRuns JoinReturns
