SPECIFICATION Spec
CONSTANTS
    a = a
    b = b
    c = c
    d = d
    Threads = {a, b, c}
    Initial = {a, b, c}
    Codes = {0}
    FirstCode = 0
    May <- Everything
    Handler = TRUE
    Parent = Parent
    NoThread = NoThread
    NoCode = NoCode
INVARIANTS NoMissedExit QuietTeardown OneEnder
CHECK_DEADLOCK FALSE
