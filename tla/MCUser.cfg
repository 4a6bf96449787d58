SPECIFICATION UserSpec
CONSTANTS
    t1 = t1
    t2 = t2
    t3 = t3
    Threads <- MCThreads
    Nowhere = Nowhere
    MaxCount = 1
    SemValueMax = 2
    Writer = 3
    MaxUndone = 1
    FastTries = 1
SYMMETRY Alike
INVARIANTS
    UserTypesOK
    SyncExact
    NobodyStuck
    
