CONSTANTS
    p = p
    q = q
    a = a
    b = b
    c = c
    Main = main
    None = None
    Root = p
    Procs <- TheProcs
    Threads <- TheThreads
    Proc <- TheProc
    May <- TheMay
    Early = {1, 2}
    Leases = {1, 2, 3, 4}
    MaxPieces = 2
    MaxWrites = 1
    MaxFailures = 1
SPECIFICATION Spec
INVARIANTS LeasesCounted NothingUnwritten ReservedStays NoneForgotten
PROPERTIES DiskMovesForward ShutdownEnds
CHECK_DEADLOCK FALSE
