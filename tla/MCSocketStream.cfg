SPECIFICATION Spec
CONSTANTS
    r = r
    w = w
    x = x
    A = A
    B = B
    Threads = {r, w, x}
    Ends = {A, B}
    Peer <- Other
    May <- Program
    MaxQueued = 1
    None = None
INVARIANTS NoOrphanReader HalvesAgree
PROPERTIES ClosedInputIsFinal ReaderSeesClose KilledReaderLeaves
CHECK_DEADLOCK FALSE
