SPECIFICATION MCSpec
CONSTANTS
    NFrames = 6
    Reserved = {0}
    HeapCores = {1, 2}
    PageBytes = 4
    Buckets = {2}
    Sizes = {2, 3, 5}
    BlockPages = 2
    MaxBlocks = 2
    MaxSlabs = 3
    ObjectsPerSlab = 2
    Spaces = {1, 2}
    HeapPages = 1
    LastPage = 3
    FrameLimit = 3
    Top = 8
    Longest = 2
    t1 = t1
    t2 = t2
    t3 = t3
    p1 = p1
    p2 = p2
    f1 = f1
    f2 = f2
    Threads <- MCThreads
    NoThread = NoThread
    InitProc = t1
    MaxPids = 4
    ByteBits = 2
    Codes = {0, 1}
    Tasks <- MCTasks
    Files <- MCFiles
    NoFile = NoFile
    MaxFds = 2
INVARIANT
    SpacesApart
