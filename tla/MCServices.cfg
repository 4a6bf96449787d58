SPECIFICATION ServicesSpec
CONSTANTS
    c1 = c1
    c2 = c2
    c3 = c3
    k1 = k1
    k2 = k2
    k3 = k3
    Tasks <- MCTasks
    Home <- MCHome
    QueueCore = c1
    r1 = r1
    t1 = t1
    t2 = t2
    u1 = u1
    NoThread = NoThread
    Cpus <- MCCpus
    Tickets = 4
    Workers <- MCWorkers
    LastModule = 3
    Requires <- MCRequires
    RcuTasks <- MCRcuTasks
    CountWidth = 8
    Threads <- MCThreads
    Addresses <- MCAddresses
    MaxFutex = 2
    MaxValue = 1
INVARIANTS
    MutualExclusion
    TrappedOnlyPlain
    WorkExact
    TableExact
    NoMissedWake
PROPERTIES
    Served
    ImplementsFifoLock
    EveryTaskRuns
    WokenReturns
