INIT Init
NEXT Next
CONSTRAINT Bounded
SYMMETRY NamesAlike
CONSTANTS
    BufSize = 2
    Room = 4
    MaxTransfer = 3
    ByteValues = {1, 2}
    a = a
    b = b
    FileNames = {a, b}
    LastCluster = 5
    FatSector = 2
    DirSlots = 1
    FileNodes = {1}
    MaxClusters = 2
    Dentries = {1, 2, 3, 4}
    OnDisk = {"f", "g"}
    Openings = {"o", "p"}
    RingSize = 4
    Letters = {"x", "y"}
    NoThread = NoThread
    m1 = m1
    s1 = s1
    Threads = {m1, s1}
    Sides <- MCSides
    PtyRingSize = 2
    PtyCounter = 4
    PtyLen = 2
    EvSize = 4
    RepeatDelay = 2
    RepeatPeriod = 2
    Width = 3
INVARIANTS
    FilesTypesOK
    FilesWriteBack
    
    
    TerminalsExact
    
