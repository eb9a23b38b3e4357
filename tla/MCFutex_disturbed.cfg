SPECIFICATION Spec
CONSTANTS
    a = a
    b = b
    c = c
    p = p
    q = q
    Threads = {a, b, c}
    Spaces = {p, q}
    SpaceOf <- TwoSpaces
    Lane <- MixedLanes
    May <- Disturbed
    Words = {w}
    SharedWords = {w}
    Values = {0, 1}
    Zero = 0
    Bits = {x}
    TidWord <- JoinTid
    MaxRepoints = 1
    WakeCounts = {3}
    WakeAll = 3
    Everyone = Everyone
    NoThread = NoThread
    NoWord = NoWord
INVARIANTS NoLostWake StartSignalConsumed
PROPERTIES ClaimIsHonoured
CHECK_DEADLOCK FALSE
