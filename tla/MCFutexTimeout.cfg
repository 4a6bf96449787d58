SPECIFICATION Spec
CONSTANTS
    t1 = t1
    t2 = t2
    t3 = t3
    u1 = u1
    NoThread = NoThread
    MaxFutex = 2
    MaxValue = 1
    Threads <- TwoThreads
    Addresses <- OneAddress
INVARIANT
    TimeoutNotWoken
