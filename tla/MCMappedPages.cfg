SPECIFICATION Spec
CONSTANTS
    a = a
    b = b
    c = c
    f1 = f1
    f2 = f2
    None = None
    Threads <- TheThreads
    Files <- TheFiles
    CacheFile = f1
    May <- TheMay
    NumPages = 2
    MaxVersion = 2
    MaxChanges = 3
INVARIANTS Coherent EntryIsMapped SharedIsDirty
PROPERTIES FaultReturns
CHECK_DEADLOCK FALSE
