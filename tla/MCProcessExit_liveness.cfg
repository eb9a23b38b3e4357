SPECIFICATION FairSpec
CONSTANTS
    a = a
    b = b
    c = c
    d = d
    Threads = {a, b, c}
    Initial = {a, b}
    Codes = {0}
    FirstCode = 0
    May <- Mixed
    Handler = TRUE
    Parent = Parent
    NoThread = NoThread
    NoCode = NoCode
INVARIANTS DrainedBeforeEnd
PROPERTIES GroupExitEnds ToldThreadsGo WaitReturns
CHECK_DEADLOCK FALSE
