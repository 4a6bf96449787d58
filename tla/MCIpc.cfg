SPECIFICATION IpcSpec
CONSTANTS
    t1 = t1
    t2 = t2
    t3 = t3
    u1 = u1
    u2 = u2
    Addresses <- MCAddresses
    MaxFutex = 2
    MaxValue = 1
    NoThread = NoThread
    Threads <- MCThreads
    Family <- MCFamily
    Reader = t1
    Writer = t2
    Capacity = 2
    SizeT = 4
    MaxLen = 3
    MaxRefs = 2
    MaxSockFds = 2
    SoMaxConn = 2
    BacklogMax = 2
    UnixBufSize = 2
    MaxOpened = 2
    MaxBound = 1
    MaxSockets = 4
    MaxBytes = 3
    Owner = t1
    Signals = {11, 15}
    Fatal = {15}
    Faults = {11}
    MaxDepth = 1
INVARIANTS
    IpcTypesOK
    
    PipeInOrder
    PipeAwake
    SocketsSound

    
