SPECIFICATION Spec
CONSTANTS
    t1 = t1
    t2 = t2
    t3 = t3
    c1 = c1
    c2 = c2
    NoThread = NoThread
    Threads <- TwoThreads
    Cores <- OneCore
INVARIANT ExitGroupNeverReturns
CHECK_DEADLOCK FALSE
