SPECIFICATION ExecSpec
CONSTANTS
    t1 = t1
    t2 = t2
    t3 = t3
    Threads <- MCTwoThreads
    Nowhere = Nowhere
    MaxCount = 1
    SemValueMax = 2
    Writer = 3
    MaxUndone = 1
    FastTries = 1
PROPERTY
    JoinerWoken
