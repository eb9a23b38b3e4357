SPECIFICATION FairSpec
CONSTANTS
    a = a
    b = b
    c = c
    p = p
    q = q
    Threads = {a, c}
    Spaces = {p}
    SpaceOf <- OneSpace
    Lane <- WaiterIn64
    May <- OneWaiter
    Words = {w}
    SharedWords = {}
    Values = {0, 1}
    Zero = 0
    Bits = {x}
    TidWord <- NoTids
    MaxRepoints = 1
    WakeCounts = {1, 3}
    WakeAll = 3
    Everyone = Everyone
    NoThread = NoThread
    NoWord = NoWord
PROPERTIES TerminatedLeaves StoreReachesWaiter
CHECK_DEADLOCK FALSE
