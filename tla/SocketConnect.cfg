SPECIFICATION Spec
CONSTANTS
    Connectors = {c1, c2}
    Acceptors = {a1, a2}
    Nonblocking = {c2}
    Signalled = {c1}
    Killed = {c1}
    None = None
INVARIANTS QueuedOnce NoIdleAcceptor
CHECK_DEADLOCK FALSE
