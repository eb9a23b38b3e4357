SPECIFICATION FairSpec
CONSTANTS
    a = a
    b = b
    c = c
    d = d
    Threads = {a, b}
    Initial = {a, b}
    Codes = {0, 1}
    FirstCode = 0
    May <- TwoGroups
    Handler = TRUE
    Parent = Parent
    NoThread = NoThread
    NoCode = NoCode

PROPERTIES GroupExitEnds
CHECK_DEADLOCK FALSE
